---------------------------- MODULE Spec2Model ----------------------------
(***************************************************************************)
(* Model of the contract solver registry of the Bitburner scripts          *)
(* (src/utils/contract-solvers.ts, held in src/unnamed/part_003 lines      *)
(* 154-1235).                                                              *)
(*                                                                         *)
(* A caller holds a payload object `data`, invokes a registered solver on  *)
(* it and receives either a returned value (`out`) or a thrown error       *)
(* (`raised`).  Strings are sequences of one-character strings; array      *)
(* indices of the source are 0-based and written At(s, k).                 *)
(***************************************************************************)
EXTENDS Integers, Sequences, FiniteSets, TLC

VARIABLES
    contractType,   \* identifier of the solver invoked last ("" before any call)
    data,           \* the payload object the caller holds (solvers receive a reference)
    out,            \* value returned by the last call
    raised,         \* error thrown by the last call, "none" when it returned
    log,            \* the outcomes of the calls made so far, oldest first
    chunks,         \* the chunk list the caller encoded into data (LZ decoding only)
    frame           \* local variables of a call that is still running (NoFrame otherwise)

vars == <<contractType, data, out, raised, log, chunks, frame>>

NoFrame == [pc |-> "none"]

(***************************************************************************)
(* Bounds of the model.                                                    *)
(***************************************************************************)
MaxLen == 5
MaxRun == 20

(***************************************************************************)
(* JavaScript primitives used by the solvers.                              *)
(***************************************************************************)
Min(a, b) == IF a < b THEN a ELSE b
Max(a, b) == IF a > b THEN a ELSE b

At(s, k) == s[k + 1]

Digits == <<"0", "1", "2", "3", "4", "5", "6", "7", "8", "9">>

IsDigit(ch) == \E k \in 1..10 : Digits[k] = ch

\* parseInt(ch, 10) of a one-character string that is a digit (NaN otherwise:
\* the callers test IsDigit first and take the NaN branch themselves).
parseInt(ch) == CHOOSE k \in 0..9 : Digits[k + 1] = ch

\* Number.prototype.toString() of a non-negative integer.
RECURSIVE toString(_)
toString(k) ==
    IF k < 10 THEN <<Digits[k + 1]>>
    ELSE toString(k \div 10) \o <<Digits[(k % 10) + 1]>>

\* String.prototype.substring(a, b) for 0 <= a <= b (b is clamped to the length).
substring(s, a, b) == SubSeq(s, a + 1, Min(b, Len(s)))

(***************************************************************************)
(* Compression III: LZ Compression                                         *)
(***************************************************************************)
\* Longest literal / back-reference chunk and farthest look-back.
MaxChunkTwoDigits == 9 + 1
MaxChunk == 9
MaxOffset == 9

\* The match loop: counts equal characters at i.. and (i - offset).., up to limit.
RECURSIVE MatchLength(_, _, _, _, _)
MatchLength(input, i, offset, limit, matchLength) ==
    IF /\ matchLength < limit
       /\ i + matchLength < Len(input)
       /\ At(input, i + matchLength) = At(input, i - offset + matchLength)
    THEN MatchLength(input, i, offset, limit, matchLength + 1)
    ELSE matchLength

\* canReference: some offset 1..min(i, 9) matches the next len characters.
CanReference(input, i, len) ==
    \E offset \in 1..Min(i, MaxOffset) :
        MatchLength(input, i, offset, len, 0) >= len

\* The for loop over len = 1..min(9, input.length - i) of the type 1 branch.
RECURSIVE DirectCopyLength(_, _, _, _)
DirectCopyLength(input, i, len, maxLength) ==
    IF len <= Min(MaxChunk, Len(input) - i)
    THEN IF ~CanReference(input, i, len)
         THEN DirectCopyLength(input, i, len + 1, len)
         ELSE maxLength
    ELSE maxLength

\* The type 2 branch recording offset - 1 in place of offset.
RECURSIVE BestReferenceZeroBased(_, _, _, _, _)
BestReferenceZeroBased(input, i, offset, bestLength, bestOffset) ==
    IF offset <= Min(i, MaxOffset)
    THEN LET matchLength == MatchLength(input, i, offset, MaxChunk, 0)
         IN  IF matchLength > bestLength
             THEN BestReferenceZeroBased(input, i, offset + 1, matchLength, offset - 1)
             ELSE BestReferenceZeroBased(input, i, offset + 1, bestLength, bestOffset)
    ELSE <<bestLength, bestOffset>>

\* The for loop over offset = 1..min(i, 9) of the type 2 branch: first longest match.
RECURSIVE BestReference(_, _, _, _, _)
BestReference(input, i, offset, bestLength, bestOffset) ==
    IF offset <= Min(i, MaxOffset)
    THEN LET matchLength == MatchLength(input, i, offset, MaxChunk, 0)
         IN  IF matchLength > bestLength
             THEN BestReference(input, i, offset + 1, matchLength, offset)
             ELSE BestReference(input, i, offset + 1, bestLength, bestOffset)
    ELSE <<bestLength, bestOffset>>

\* The while (i < input.length) loop.
RECURSIVE LZCompressionLoop(_, _, _, _)
LZCompressionLoop(input, i, isType1, result) ==
    IF i < Len(input)
    THEN IF isType1
         THEN LET maxLength == DirectCopyLength(input, i, 1, 0)
              IN  IF maxLength > 0
                  THEN LZCompressionLoop(input, i + maxLength, ~isType1,
                           result \o toString(maxLength)
                                  \o substring(input, i, i + maxLength))
                  ELSE LZCompressionLoop(input, i, ~isType1, result \o <<"0">>)
         ELSE LET best == BestReference(input, i, 1, 0, 0)
              IN  IF best[1] > 0
                  THEN LZCompressionLoop(input, i + best[1], ~isType1,
                           result \o toString(best[1]) \o toString(best[2]))
                  ELSE LZCompressionLoop(input, i, ~isType1, result \o <<"0">>)
    ELSE result

solveLZCompression(input) ==
    IF Len(input) = 0 THEN <<>> ELSE LZCompressionLoop(input, 0, TRUE, <<>>)

(***************************************************************************)
(* Compression II: LZ Decompression                                        *)
(***************************************************************************)
\* Index the next copied character is read from.
SourceIndex(result, offset) == Len(result) - offset

\* A copy of the whole referenced block at once (no overlap with what it appends).
CopyReferenceBlock(result, offset, length, j) ==
    LET sourceIndex == SourceIndex(result, offset)
    IN  IF sourceIndex >= 0 /\ sourceIndex < Len(result)
        THEN result \o substring(result, sourceIndex, sourceIndex + length)
        ELSE result

\* for (j = 0; j < length; j++): append result[result.length - offset] if in range.
RECURSIVE CopyReference(_, _, _, _)
CopyReference(result, offset, length, j) ==
    IF j < length
    THEN LET sourceIndex == SourceIndex(result, offset)
         IN  CopyReference(
                 IF sourceIndex >= 0 /\ sourceIndex < Len(result)
                 THEN Append(result, At(result, sourceIndex))
                 ELSE result,
                 offset, length, j + 1)
    ELSE result

\* The while (i < input.length) loop.  A character that is no digit parses to
\* NaN: every comparison with it is false, so nothing is copied.
RECURSIVE LZDecompressionLoop(_, _, _, _)
LZDecompressionLoop(input, i, isType1, result) ==
    IF i < Len(input)
    THEN LET ch == At(input, i) IN
         IF ~IsDigit(ch)
         THEN LZDecompressionLoop(input,
                  IF ~isType1 /\ i + 1 < Len(input) THEN i + 2 ELSE i + 1,
                  ~isType1, result)
         ELSE LET length == parseInt(ch) IN
              IF length = 0
              THEN LZDecompressionLoop(input, i + 1, ~isType1, result)
              ELSE IF isType1
              THEN IF i + 1 + length <= Len(input)
                   THEN LZDecompressionLoop(input, i + 1 + length, ~isType1,
                            result \o substring(input, i + 1, i + 1 + length))
                   ELSE LZDecompressionLoop(input, i + 1, ~isType1, result)
              ELSE IF i + 1 < Len(input)
                   THEN LET och == At(input, i + 1) IN
                        LZDecompressionLoop(input, i + 2, ~isType1,
                            IF IsDigit(och)
                            THEN CopyReference(result, parseInt(och), length, 0)
                            ELSE result)
                   ELSE LZDecompressionLoop(input, i + 1, ~isType1, result)
    ELSE result

solveLZDecompression(input) ==
    IF Len(input) = 0 THEN <<>> ELSE LZDecompressionLoop(input, 0, TRUE, <<>>)

(***************************************************************************)
(* Inputs of the LZ codec.                                                 *)
(***************************************************************************)
Alphabet == {"a", "b", "0", "1"}

StringsUpTo(n) == UNION {[1..k -> Alphabet] : k \in 0..n}

\* Strings of period p over "a", "b", "0": long enough to exceed one chunk.
Periodic(len, p) == [k \in 1..len |-> <<"a", "b", "0">>[((k - 1) % p) + 1]]

LZInputs == StringsUpTo(MaxLen) \cup {Periodic(len, p) : len \in 0..MaxRun, p \in 1..3}

(***************************************************************************)
(* The caller: compress a string, then decompress what came back.          *)
(***************************************************************************)
InitLZ ==
    /\ data \in LZInputs
    /\ contractType = ""
    /\ out = <<>>
    /\ raised = "none"
    /\ log = <<>>
    /\ chunks = <<>>
    /\ frame = NoFrame

CallLZCompression ==
    /\ log = <<>>
    /\ contractType' = "Compression III: LZ Compression"
    /\ out' = solveLZCompression(data)
    /\ raised' = "none"
    /\ log' = Append(log, out')
    /\ UNCHANGED <<data, chunks, frame>>

CallLZDecompressionOfOut ==
    /\ Len(log) = 1
    /\ contractType = "Compression III: LZ Compression"
    /\ contractType' = "Compression II: LZ Decompression"
    /\ out' = solveLZDecompression(out)
    /\ raised' = "none"
    /\ log' = Append(log, out')
    /\ UNCHANGED <<data, chunks, frame>>

NextLZ == CallLZCompression \/ CallLZDecompressionOfOut

SpecLZ == InitLZ /\ [][NextLZ]_vars

\* C1: decompressing the compression of any string s gives back s.
LZRoundTrip ==
    (Len(log) = 2 /\ contractType = "Compression II: LZ Decompression")
        => out = data

\* C1 witness: a round trip whose encoding holds a back-reference longer than its offset.
LZRoundTripWitness ==
    /\ Len(log) = 2
    /\ Len(data) > 9
    /\ out = data
    /\ \E k \in 1..(Len(log[1]) - 1) :
           /\ IsDigit(log[1][k]) /\ IsDigit(log[1][k + 1])
           /\ log[1][k] = "9" /\ log[1][k + 1] = "1"

(***************************************************************************)
(* The caller: decode a well-formed chunk list.                            *)
(*                                                                         *)
(* Chunk k of a list is a literal chunk when k is odd and a back-reference *)
(* when k is even; a chunk of length 0 has no payload.                     *)
(***************************************************************************)
MaxChunks == 4
MaxLit == 1
MaxRef == 2

LiteralChunks ==
    {[length |-> Len(cs), chars |-> cs, offset |-> 0] :
        cs \in UNION {[1..k -> {"a", "1"}] : k \in 0..MaxLit}}

\* The expansion of one chunk appended to the output o decoded so far.
ExpandChunk(o, c, isLiteral) ==
    IF isLiteral THEN o \o c.chars
    ELSE LET n == Len(o)
             ext[k \in 1..(n + c.length)] == IF k <= n THEN o[k] ELSE ext[k - c.offset]
         IN  ext

RECURSIVE Expand(_)
Expand(cs) ==
    IF cs = <<>> THEN <<>>
    ELSE ExpandChunk(Expand(SubSeq(cs, 1, Len(cs) - 1)), cs[Len(cs)], Len(cs) % 2 = 1)

\* Back-references that may follow the chunks cs: the offset reaches decoded output.
ReferenceChunks(cs) ==
    {[length |-> 0, chars |-> <<>>, offset |-> 0]} \cup
    {[length |-> l, chars |-> <<>>, offset |-> x] :
        l \in 1..MaxRef, x \in 1..Min(MaxRef, Len(Expand(cs)))}

RECURSIVE ChunkLists(_)
ChunkLists(k) ==
    IF k = 0 THEN {<<>>}
    ELSE {Append(cs, c) :
            <<cs, c>> \in UNION {{<<pre, nxt>> :
                nxt \in (IF k % 2 = 1 THEN LiteralChunks ELSE ReferenceChunks(pre))} :
                pre \in ChunkLists(k - 1)}}

RECURSIVE Encode(_)
Encode(cs) ==
    IF cs = <<>> THEN <<>>
    ELSE LET c == cs[Len(cs)]
         IN  Encode(SubSeq(cs, 1, Len(cs) - 1)) \o toString(c.length) \o
             (IF c.length = 0 THEN <<>>
              ELSE IF Len(cs) % 2 = 1 THEN c.chars ELSE toString(c.offset))

InitDecode ==
    /\ chunks \in UNION {ChunkLists(k) : k \in 0..MaxChunks}
    /\ data = Encode(chunks)
    /\ contractType = ""
    /\ out = <<>>
    /\ raised = "none"
    /\ log = <<>>
    /\ frame = NoFrame

CallLZDecompression ==
    /\ log = <<>>
    /\ contractType' = "Compression II: LZ Decompression"
    /\ out' = solveLZDecompression(data)
    /\ raised' = "none"
    /\ log' = Append(log, out')
    /\ UNCHANGED <<data, chunks, frame>>

NextDecode == CallLZDecompression

SpecDecode == InitDecode /\ [][NextDecode]_vars

\* C7: decoding a well-formed encoding yields the concatenation of the chunk
\* expansions, a back-reference copying one character at a time from offset
\* positions before the end of the output.
DecompressionExpandsChunks ==
    Len(log) = 1 => out = Expand(chunks)

\* C7 witness: a decoded list with a zero-length chunk and a back-reference
\* longer than its offset.
DecompressionWitness ==
    /\ Len(log) = 1
    /\ out = Expand(chunks)
    /\ \E k \in 1..Len(chunks) : chunks[k].length = 0
    /\ \E k \in 1..Len(chunks) : k % 2 = 0 /\ chunks[k].length > chunks[k].offset
                                      /\ chunks[k].offset > 0

(***************************************************************************)
(* Minimum Path Sum in a Triangle                                          *)
(*                                                                         *)
(* The solver works on the caller's array: `const triangle = data` is the  *)
(* same object, and triangle[row][col] = ... writes into it.  The operator *)
(* returns the array as the call leaves it.                                *)
(***************************************************************************)
\* triangle[row]?.[col] is a number (undefined when the row or the cell is missing).
IsNumberAt(triangle, row, col) ==
    /\ row >= 0 /\ row < Len(triangle)
    /\ col >= 0 /\ col < Len(At(triangle, row))

\* triangle[0]?.[0] || 0
TopOrZero(triangle) ==
    IF IsNumberAt(triangle, 0, 0) THEN At(At(triangle, 0), 0) ELSE 0

\* One pass of the inner loop body at (row, col).
WriteCell(triangle, row, col) ==
    IF /\ IsNumberAt(triangle, row, col)
       /\ IsNumberAt(triangle, row + 1, col)
       /\ IsNumberAt(triangle, row + 1, col + 1)
    THEN LET current == At(At(triangle, row), col)
             left == At(At(triangle, row + 1), col)
             right == At(At(triangle, row + 1), col + 1)
         IN  [triangle EXCEPT ![row + 1][col + 1] = current + Min(left, right)]
    ELSE triangle

\* for (row = n - 2; row >= 0; row--) for (col = 0; col <= row; col++)
RECURSIVE TriangleLoop(_, _, _)
TriangleLoop(triangle, row, col) ==
    IF row < 0 THEN triangle
    ELSE IF col > row THEN TriangleLoop(triangle, row - 1, 0)
    ELSE TriangleLoop(WriteCell(triangle, row, col), row, col + 1)

\* The payload object after the call.
TriangleAfter(triangle) ==
    IF Len(triangle) <= 1 THEN triangle
    ELSE TriangleLoop(triangle, Len(triangle) - 2, 0)

solveMinimumPathSumInTriangle(triangle) ==
    IF Len(triangle) = 0 THEN 0
    ELSE TopOrZero(TriangleAfter(triangle))

(***************************************************************************)
(* The caller: invoke a solver twice on the same payload object.           *)
(***************************************************************************)
MaxRows == 3
MaxCell == 2

RECURSIVE Triangles(_)
Triangles(rows) ==
    IF rows = 0 THEN {<<>>}
    ELSE {Append(t, r) : t \in Triangles(rows - 1), r \in [1..rows -> 1..MaxCell]}

InitTwice ==
    /\ data \in UNION {Triangles(rows) : rows \in 0..MaxRows}
    /\ contractType = ""
    /\ out = 0
    /\ raised = "none"
    /\ log = <<>>
    /\ chunks = <<>>
    /\ frame = NoFrame

CallMinimumPathSumInTriangle ==
    /\ Len(log) < 2
    /\ contractType' = "Minimum Path Sum in a Triangle"
    /\ out' = solveMinimumPathSumInTriangle(data)
    /\ data' = TriangleAfter(data)
    /\ raised' = "none"
    /\ log' = Append(log, out')
    /\ UNCHANGED <<chunks, frame>>

NextTwice == CallMinimumPathSumInTriangle

SpecTwice == InitTwice /\ [][NextTwice]_vars

\* C2: a solver invoked twice in succession on the same payload object returns
\* equal results.
SecondCallSameResult ==
    Len(log) = 2 => log[2] = log[1]

(***************************************************************************)
(* Proper 2-Coloring of a Graph                                            *)
(*                                                                         *)
(* graph is the adjacency list (neighbours in insertion order), colors the *)
(* array of -1 (uncoloured), 0 and 1; vertex v is entry v + 1 of both.     *)
(***************************************************************************)
Uncolored == 0 - 1

\* The colour given to a newly discovered neighbour of current.
NeighborColor(colors, current) == 1 - At(colors, current)

\* The clash test that overlooks an edge from a vertex to itself.
ConflictBetweenDistinct(colors, neighbor, current) ==
    neighbor # current /\ At(colors, neighbor) = At(colors, current)

\* A neighbour that is already coloured clashes with current.
Conflict(colors, neighbor, current) == At(colors, neighbor) = At(colors, current)

\* graph[u]?.push(v); graph[v]?.push(u) for each edge in turn.
RECURSIVE BuildGraph(_, _, _)
BuildGraph(graph, edges, k) ==
    IF k > Len(edges) THEN graph
    ELSE LET u == edges[k][1]
             v == edges[k][2]
             g1 == [graph EXCEPT ![u + 1] = Append(@, v)]
             g2 == [g1 EXCEPT ![v + 1] = Append(@, u)]
         IN  BuildGraph(g2, edges, k + 1)

\* for (const neighbor of graph[current]): st = [ok, colors, queue].
RECURSIVE VisitNeighbors(_, _, _, _)
VisitNeighbors(graph, st, current, k) ==
    IF k > Len(At(graph, current)) THEN st
    ELSE LET neighbor == At(graph, current)[k] IN
         IF At(st.colors, neighbor) = Uncolored
         THEN VisitNeighbors(graph,
                  [ok |-> TRUE,
                   colors |-> [st.colors EXCEPT ![neighbor + 1] =
                                   NeighborColor(st.colors, current)],
                   queue |-> Append(st.queue, neighbor)],
                  current, k + 1)
         ELSE IF Conflict(st.colors, neighbor, current)
         THEN [st EXCEPT !.ok = FALSE]
         ELSE VisitNeighbors(graph, st, current, k + 1)

\* while (queue.length > 0) { current = queue.shift(); ... }
RECURSIVE ColorComponent(_, _)
ColorComponent(graph, st) ==
    IF st.queue = <<>> THEN st
    ELSE LET current == Head(st.queue)
             nxt == VisitNeighbors(graph, [st EXCEPT !.queue = Tail(@)], current, 1)
         IN  IF nxt.ok THEN ColorComponent(graph, nxt) ELSE nxt

\* for (i = 0; i < numVertices; i++) if (colors[i] === -1) { ... }
RECURSIVE ColorFrom(_, _, _, _)
ColorFrom(graph, colors, i, numVertices) ==
    IF i >= numVertices THEN colors
    ELSE IF At(colors, i) # Uncolored THEN ColorFrom(graph, colors, i + 1, numVertices)
    ELSE LET st == ColorComponent(graph,
                       [ok |-> TRUE,
                        colors |-> [colors EXCEPT ![i + 1] = 0],
                        queue |-> <<i>>])
         IN  IF st.ok THEN ColorFrom(graph, st.colors, i + 1, numVertices) ELSE <<>>

\* The solver on a vertex count that is a non-negative integer and the edges
\* that pass the validity test (pairs of numbers in 0..numVertices-1).
Proper2Coloring(numVertices, edges) ==
    ColorFrom(BuildGraph([v \in 1..numVertices |-> <<>>], edges, 1),
              [v \in 1..numVertices |-> Uncolored], 0, numVertices)

(***************************************************************************)
(* The caller: colour a graph given as a vertex count and an edge list.    *)
(***************************************************************************)
MaxVertices == 4
MaxEdges == 3

\* An edge is a pair of vertices of 0..numVertices-1 (a self-loop included).
Edges(numVertices) == (0..(numVertices - 1)) \X (0..(numVertices - 1))

InitColoring ==
    /\ \E nv \in 1..MaxVertices, k \in 0..MaxEdges :
           \E es \in [1..k -> Edges(nv)] : data = <<nv, es>>
    /\ contractType = ""
    /\ out = <<>>
    /\ raised = "none"
    /\ log = <<>>
    /\ chunks = <<>>
    /\ frame = NoFrame

CallProper2ColoringGraph ==
    /\ log = <<>>
    /\ contractType' = "Proper 2-Coloring of a Graph"
    /\ out' = Proper2Coloring(data[1], data[2])
    /\ raised' = "none"
    /\ log' = Append(log, out')
    /\ UNCHANGED <<data, chunks, frame>>

NextColoring == CallProper2ColoringGraph

SpecColoring == InitColoring /\ [][NextColoring]_vars

\* A colouring c of the vertices is proper for the edge list es.
ProperFor(c, es) == \A k \in 1..Len(es) : c[es[k][1] + 1] # c[es[k][2] + 1]

Bipartite(numVertices, es) ==
    \E c \in [1..numVertices -> {0, 1}] : ProperFor(c, es)

\* C10: the solver returns [] exactly when the graph is not bipartite, and
\* otherwise a complete proper colouring with colours 0 and 1 of length N.
ColoringCorrect ==
    Len(log) = 1 =>
        /\ (out = <<>>) <=> ~Bipartite(data[1], data[2])
        /\ out # <<>> =>
              /\ Len(out) = data[1]
              /\ \A v \in 1..Len(out) : out[v] \in {0, 1}
              /\ ProperFor(out, data[2])

\* C10 witnesses: an odd cycle is refused, and a graph of several components
\* is coloured.
ColoringWitness ==
    /\ Len(log) = 1
    /\ \/ /\ out = <<>>
          /\ data = <<3, <<<<0, 1>>, <<0, 2>>, <<1, 2>>>> >>
       \/ /\ out = <<0, 0, 1, 1>>
          /\ data[1] = 4 /\ Len(data[2]) = 3

(***************************************************************************)
(* Algorithmic Stock Trader IV                                             *)
(*                                                                         *)
(* buy and sell are the arrays of k + 1 entries, entry i at index i + 1;   *)
(* an entry of buy is -Infinity or a finite number.                        *)
(***************************************************************************)
NegInfinity == [finite |-> FALSE, value |-> 0]
Finite(x) == [finite |-> TRUE, value |-> x]

\* The update that forgets the profit already banked in sell[i].
SellUpdateLatest(sellI, buyI, price) ==
    IF ~buyI.finite THEN sellI ELSE buyI.value + price

\* Math.max(sell[i], buy[i] + price)
SellUpdate(sellI, buyI, price) ==
    IF ~buyI.finite THEN sellI ELSE Max(sellI, buyI.value + price)

\* Math.max(buy[i], sell[i - 1] - price)
BuyUpdate(buyI, sellBelow, price) ==
    IF ~buyI.finite THEN Finite(sellBelow - price)
    ELSE Finite(Max(buyI.value, sellBelow - price))

\* for (i = k; i >= 1; i--): st = [buy, sell].
RECURSIVE TradeDay(_, _, _)
TradeDay(st, price, i) ==
    IF i < 1 THEN st
    ELSE LET sellI == SellUpdate(At(st.sell, i), At(st.buy, i), price)
             buyI == BuyUpdate(At(st.buy, i), At(st.sell, i - 1), price)
         IN  TradeDay([buy |-> [st.buy EXCEPT ![i + 1] = buyI],
                       sell |-> [st.sell EXCEPT ![i + 1] = sellI]],
                      price, i - 1)

\* for (const price of prices)
RECURSIVE TradeLoop(_, _, _, _)
TradeLoop(st, prices, d, k) ==
    IF d > Len(prices) THEN st
    ELSE TradeLoop(TradeDay(st, prices[d], k), prices, d + 1, k)

\* The limited-transaction pass: sell[k] after the last price.
LimitedProfit(k, prices) ==
    At(TradeLoop([buy |-> [i \in 1..(k + 1) |-> NegInfinity],
                  sell |-> [i \in 1..(k + 1) |-> 0]],
                 prices, 1, k).sell, k)

\* The sum of all consecutive differences, falling ones included (wrong).
UnlimitedProfitAllDifferences(prices, i) ==
    IF i >= Len(prices) THEN 0 ELSE At(prices, Len(prices) - 1) - At(prices, i - 1)

\* The unlimited-transaction shortcut: the sum of the positive differences.
RECURSIVE UnlimitedProfit(_, _)
UnlimitedProfit(prices, i) ==
    IF i >= Len(prices) THEN 0
    ELSE (IF At(prices, i) > At(prices, i - 1)
          THEN At(prices, i) - At(prices, i - 1) ELSE 0)
         + UnlimitedProfit(prices, i + 1)

\* k >= Math.floor(prices.length / 2)
IsUnlimited(k, prices) == k >= Len(prices) \div 2

solveAlgorithmicStockTraderIV(k, prices) ==
    IF Len(prices) < 2 THEN 0
    ELSE IF IsUnlimited(k, prices) THEN UnlimitedProfit(prices, 1)
    ELSE LimitedProfit(k, prices)

(***************************************************************************)
(* The caller: ask for the best profit of at most k transactions.          *)
(***************************************************************************)
MaxPrices == 6
MaxPrice == 3
MaxK == 3

InitStock ==
    /\ \E k \in 0..MaxK, n \in 0..MaxPrices :
           \E prices \in [1..n -> 0..MaxPrice] : data = <<k, prices>>
    /\ contractType = ""
    /\ out = 0
    /\ raised = "none"
    /\ log = <<>>
    /\ chunks = <<>>
    /\ frame = NoFrame

CallAlgorithmicStockTraderIV ==
    /\ log = <<>>
    /\ contractType' = "Algorithmic Stock Trader IV"
    /\ out' = solveAlgorithmicStockTraderIV(data[1], data[2])
    /\ raised' = "none"
    /\ log' = Append(log, out')
    /\ UNCHANGED <<data, chunks, frame>>

NextStock == CallAlgorithmicStockTraderIV

SpecStock == InitStock /\ [][NextStock]_vars

SetMax(S) == CHOOSE x \in S : \A y \in S : y <= x

\* The best total profit of at most k transactions (buy on day b, sell on a
\* later day s, next purchase after s) among the days from..Len(prices).
RECURSIVE BestProfit(_, _, _)
BestProfit(prices, from, k) ==
    IF k = 0 \/ from >= Len(prices) THEN 0
    ELSE SetMax({0} \cup
             {prices[s] - prices[b] + BestProfit(prices, s + 1, k - 1) :
                 <<b, s>> \in {p \in (from..Len(prices)) \X (from..Len(prices)) :
                                  p[1] < p[2]}})

\* C9: the solver returns the maximum profit of at most k non-overlapping
\* buy-then-sell transactions, 0 when none is profitable or there are fewer
\* than two prices.
StockTraderIVMaximal ==
    Len(log) = 1 =>
        /\ out = BestProfit(data[2], 1, data[1])
        /\ Len(data[2]) < 2 => out = 0

\* C9 witness: the limited-transaction pass is taken with k = 2 and both
\* transactions are needed.
StockTraderIVWitness ==
    /\ Len(log) = 1
    /\ data[1] = 2
    /\ ~IsUnlimited(data[1], data[2])
    /\ out = BestProfit(data[2], 1, 2)
    /\ out > BestProfit(data[2], 1, 1)

(***************************************************************************)
(* JavaScript values of an untyped payload: records [t, v] where t is the  *)
(* type and v the value (a number that is no integer is a "fraction" whose *)
(* v is twice its value).                                                  *)
(***************************************************************************)
JSNumber(k) == [t |-> "number", v |-> k]
JSFraction(twice) == [t |-> "fraction", v |-> twice]
JSString(cs) == [t |-> "string", v |-> cs]
JSArray(xs) == [t |-> "array", v |-> xs]
JSNull == [t |-> "null", v |-> 0]
JSUndefined == [t |-> "undefined", v |-> 0]

\* The outcome of a call: a returned value or a thrown error.
Return(value) == [raised |-> "none", value |-> value]
Throw(error) == [raised |-> error, value |-> <<>>]

(***************************************************************************)
(* Square Root                                                             *)
(***************************************************************************)
\* The value of a string of decimal digits.
RECURSIVE DecimalValue(_)
DecimalValue(cs) ==
    IF cs = <<>> THEN 0
    ELSE 10 * DecimalValue(SubSeq(cs, 1, Len(cs) - 1)) + parseInt(cs[Len(cs)])

AllDigits(cs) == cs # <<>> /\ \A k \in 1..Len(cs) : IsDigit(cs[k])

\* String.prototype.trim for the blank character.
RECURSIVE Trim(_)
Trim(cs) ==
    IF cs = <<>> THEN cs
    ELSE IF Head(cs) = " " THEN Trim(Tail(cs))
    ELSE IF cs[Len(cs)] = " " THEN Trim(SubSeq(cs, 1, Len(cs) - 1))
    ELSE cs

\* BigInt(string): StringToBigInt of the trimmed text; the empty text is 0n, a
\* decimal literal may carry a sign, anything else is a SyntaxError.
StringToBigInt(cs) ==
    LET text == Trim(cs) IN
    IF text = <<>> THEN Return(0)
    ELSE IF AllDigits(text) THEN Return(DecimalValue(text))
    ELSE IF Head(text) = "-" /\ AllDigits(Tail(text))
    THEN Return(0 - DecimalValue(Tail(text)))
    ELSE IF Head(text) = "+" /\ AllDigits(Tail(text))
    THEN Return(DecimalValue(Tail(text)))
    ELSE Throw("SyntaxError")

\* Array.prototype.toString of an array of strings and integers: join(",").
RECURSIVE JoinComma(_)
JoinComma(xs) ==
    IF xs = <<>> THEN <<>>
    ELSE LET x == Head(xs)
             text == IF x.t = "string" THEN x.v
                     ELSE IF x.v < 0 THEN <<"-">> \o toString(0 - x.v)
                     ELSE toString(x.v)
         IN  IF Len(xs) = 1 THEN text ELSE text \o <<",">> \o JoinComma(Tail(xs))

\* BigInt(n) of the conversion on entry.
BigIntOf(n) ==
    CASE n.t = "bigint" -> Return(n.v)
      [] n.t = "number" -> Return(n.v)
      [] n.t = "fraction" -> Throw("RangeError")
      [] n.t = "string" -> StringToBigInt(n.v)
      [] n.t = "array" -> StringToBigInt(JoinComma(n.v))
      [] n.t \in {"null", "undefined"} -> Throw("TypeError")

\* n.toString(2).length
RECURSIVE BitLength(_)
BitLength(n) == IF n < 2 THEN 1 ELSE 1 + BitLength(n \div 2)

RECURSIVE ShiftLeft(_, _)
ShiftLeft(x, k) == IF k = 0 THEN x ELSE ShiftLeft(2 * x, k - 1)

\* The guess with the exponent rounded down: it can start below the root.
InitialGuessFloor(n) == ShiftLeft(1, BitLength(n) \div 2)

\* 1n << BigInt(Math.ceil(bitLen / 2))
InitialGuess(n) == ShiftLeft(1, (BitLength(n) + 1) \div 2)

\* while (true) { y = (x + n / x) >> 1n; if (y >= x) break; x = y; }
RECURSIVE Newton(_, _)
Newton(n, x) ==
    LET y == (x + n \div x) \div 2
    IN  IF y >= x THEN x ELSE Newton(n, y)

\* d2 < d1 ? x + 1 : x
Nearest(n, x) ==
    LET d1 == n - x * x
        d2 == (x + 1) * (x + 1) - n
    IN  IF d2 < d1 THEN x + 1 ELSE x

solveSquareRoot(payload) ==
    LET big == BigIntOf(payload) IN
    IF big.raised # "none" THEN big
    ELSE LET n == big.value IN
         IF n < 0 THEN Throw("RangeError")
         ELSE IF n < 2 THEN Return(toString(n))
         ELSE Return(toString(Nearest(n, Newton(n, InitialGuess(n)))))

(***************************************************************************)
(* The caller: ask for the square root of a payload of any type.           *)
(***************************************************************************)
MaxRadicand == 150
MaxNegative == 3

Negated(cs) == <<"-">> \o cs

SqrtPayloads ==
    {JSString(toString(n)) : n \in 0..MaxRadicand}
    \cup {JSString(Negated(toString(n))) : n \in 0..MaxNegative}
    \cup {JSNumber(n) : n \in (0 - MaxNegative)..MaxNegative}
    \cup {JSString(<<>>), JSString(<<"a", "b", "c">>), JSString(<<"1", ".", "5">>),
          JSString(<<" ", "9", " ">>), JSString(<<"+", "4">>), JSString(<<"-">>),
          JSFraction(3), JSFraction(0 - 1), JSNull, JSUndefined,
          JSArray(<<>>), JSArray(<<JSNumber(16)>>),
          JSArray(<<JSNumber(1), JSNumber(2)>>), JSArray(<<JSString(<<"a">>)>>)}

InitSqrt ==
    /\ data \in SqrtPayloads
    /\ contractType = ""
    /\ out = <<>>
    /\ raised = "none"
    /\ log = <<>>
    /\ chunks = <<>>
    /\ frame = NoFrame

CallSquareRoot ==
    /\ log = <<>>
    /\ contractType' = "Square Root"
    /\ LET res == solveSquareRoot(data)
       IN  /\ raised' = res.raised
           /\ out' = res.value
           /\ log' = Append(log, res)
    /\ UNCHANGED <<data, chunks, frame>>

NextSqrt == CallSquareRoot

SpecSqrt == InitSqrt /\ [][NextSqrt]_vars

\* The payload is the decimal string of the non-negative integer n.
IsDecimalOf(payload, n) == payload.t = "string" /\ payload.v = toString(n)

\* The payload denotes a negative integer: a number below zero, or a minus
\* sign followed by decimal digits that are not all zero.
DenotesNegative(payload) ==
    \/ payload.t \in {"number", "bigint"} /\ payload.v < 0
    \/ /\ payload.t = "string"
       /\ Len(payload.v) >= 2
       /\ Head(payload.v) = "-"
       /\ \A k \in 2..Len(payload.v) : IsDigit(payload.v[k])
       /\ \E k \in 2..Len(payload.v) : payload.v[k] # "0"

\* C4: Square Root raises exactly when its input denotes a negative integer.
SqrtRaisesOnlyOnNegative ==
    Len(log) = 1 => (raised # "none" <=> DenotesNegative(data))

\* C8 as stated: for the decimal string of every n >= 0 the result is the
\* decimal string of r with r*r - r < n <= r*r + r.
SqrtNearestInequality ==
    Len(log) = 1 =>
        \A n \in 0..MaxRadicand :
            IsDecimalOf(data, n) =>
                /\ raised = "none"
                /\ \E r \in 0..n : out = toString(r) /\ r * r - r < n /\ n <= r * r + r

\* C8 amended: the inequality holds for every n >= 1, and 0 has the root 0.
SqrtNearest ==
    Len(log) = 1 =>
        \A n \in 0..MaxRadicand :
            IsDecimalOf(data, n) =>
                /\ raised = "none"
                /\ n = 0 => out = <<"0">>
                /\ n >= 1 =>
                     \E r \in 0..n : out = toString(r) /\ r * r - r < n /\ n <= r * r + r

\* C8 witness: a root that is rounded up (n = 7 gives 3), past the two early returns.
SqrtNearestWitness ==
    /\ Len(log) = 1
    /\ IsDecimalOf(data, 7)
    /\ out = <<"3">>

(***************************************************************************)
(* Find Largest Prime Factor, one loop iteration per step.                 *)
(*                                                                         *)
(* frame holds the locals n, i and largestPrime and the position pc:       *)
(*   "even"   at the test of  while (n % 2 === 0)                          *)
(*   "odd"    at the test of  for (...; i <= Math.sqrt(n); ...)            *)
(*   "inner"  at the test of  while (n % i === 0)                          *)
(*   "last"   at  if (n > 2)                                               *)
(* and turns, the number of loop iterations made so far modulo 2.          *)
(***************************************************************************)
\* The remainder operator of JavaScript: the sign of the dividend, b > 0.
JSRem(a, b) == IF a >= 0 THEN a % b ELSE 0 - ((0 - a) % b)

\* n / d for a divisor d > 0 that divides n exactly.
JSQuotient(n, d) == IF n >= 0 THEN n \div d ELSE 0 - ((0 - n) \div d)

AtMostSqrtStrict(i, n) == n >= 0 /\ i * i < n

\* i <= Math.sqrt(n); Math.sqrt of a negative number is NaN and the test fails.
AtMostSqrt(i, n) == n >= 0 /\ i * i <= n

Turn(f) == 1 - f.turns

MaxFactorInput == 60

InitFactor ==
    /\ data \in (0 - MaxFactorInput)..MaxFactorInput
    /\ contractType = ""
    /\ out = 0
    /\ raised = "none"
    /\ log = <<>>
    /\ chunks = <<>>
    /\ frame = NoFrame

\* The call is entered: let n = data; let largestPrime = 2.
FactorEnter ==
    /\ frame = NoFrame
    /\ log = <<>>
    /\ contractType' = "Find Largest Prime Factor"
    /\ frame' = [pc |-> "even", n |-> data, i |-> 3, largestPrime |-> 2, turns |-> 0]
    /\ UNCHANGED <<data, out, raised, log, chunks>>

\* while (n % 2 === 0) { largestPrime = 2; n = n / 2; }
FactorHalve ==
    /\ frame.pc = "even"
    /\ JSRem(frame.n, 2) = 0
    /\ frame' = [frame EXCEPT !.largestPrime = 2, !.n = JSQuotient(frame.n, 2),
                              !.turns = Turn(frame)]
    /\ UNCHANGED <<contractType, data, out, raised, log, chunks>>

FactorEvenDone ==
    /\ frame.pc = "even"
    /\ JSRem(frame.n, 2) # 0
    /\ frame' = [frame EXCEPT !.pc = "odd", !.i = 3]
    /\ UNCHANGED <<contractType, data, out, raised, log, chunks>>

\* for (let i = 3; i <= Math.sqrt(n); i += 2): the test.
FactorOddTest ==
    /\ frame.pc = "odd"
    /\ frame' = [frame EXCEPT !.pc = IF AtMostSqrt(frame.i, frame.n) THEN "inner" ELSE "last"]
    /\ UNCHANGED <<contractType, data, out, raised, log, chunks>>

\* while (n % i === 0) { largestPrime = i; n = n / i; }
FactorDivide ==
    /\ frame.pc = "inner"
    /\ JSRem(frame.n, frame.i) = 0
    /\ frame' = [frame EXCEPT !.largestPrime = frame.i,
                              !.n = JSQuotient(frame.n, frame.i),
                              !.turns = Turn(frame)]
    /\ UNCHANGED <<contractType, data, out, raised, log, chunks>>

\* The inner loop ends: i += 2 and back to the test of the for loop.
FactorNextOdd ==
    /\ frame.pc = "inner"
    /\ JSRem(frame.n, frame.i) # 0
    /\ frame' = [frame EXCEPT !.pc = "odd", !.i = frame.i + 2, !.turns = Turn(frame)]
    /\ UNCHANGED <<contractType, data, out, raised, log, chunks>>

\* if (n > 2) largestPrime = n; return largestPrime;
FactorReturn ==
    /\ frame.pc = "last"
    /\ out' = IF frame.n > 2 THEN frame.n ELSE frame.largestPrime
    /\ log' = Append(log, out')
    /\ frame' = NoFrame
    /\ UNCHANGED <<contractType, data, raised, chunks>>

NextFactor ==
    \/ FactorEnter
    \/ FactorHalve
    \/ FactorEvenDone
    \/ FactorOddTest
    \/ FactorDivide
    \/ FactorNextOdd
    \/ FactorReturn

SpecFactor == InitFactor /\ [][NextFactor]_vars

\* The call is the only thread of control: once entered it keeps taking steps.
FairSpecFactor == SpecFactor /\ WF_vars(NextFactor)

\* C6: every call of Find Largest Prime Factor on a number returns.
FactorTerminates == <>(Len(log) = 1)

(***************************************************************************)
(* Total Ways to Sum                                                       *)
(***************************************************************************)
\* new Array(len) accepts an integer length of 0..2^32-1 and throws a
\* RangeError ("Invalid array length") for any other number.
ValidArrayLength(len) == len.t = "number" /\ len.v >= 0

\* The inner loop  for (j = i; j <= data; j++)  over dp, entry j of the array
\* at index j + 1; an entry is written when dp[j] and dp[j - i] are defined.
RECURSIVE WaysInnerLoop(_, _, _, _)
WaysInnerLoop(dp, i, j, target) ==
    IF j > target THEN dp
    ELSE IF (j + 1) \in DOMAIN dp /\ (j - i + 1) \in DOMAIN dp
    THEN WaysInnerLoop([dp EXCEPT ![j + 1] = At(dp, j) + At(dp, j - i)], i, j + 1, target)
    ELSE WaysInnerLoop(dp, i, j + 1, target)

\* The outer loop with the part size i running up to the target itself
\* (wrong: the sum of the single part is counted).
RECURSIVE WaysLoopThroughTarget(_, _, _)
WaysLoopThroughTarget(dp, i, target) ==
    IF i > target THEN dp
    ELSE WaysLoopThroughTarget(WaysInnerLoop(dp, i, i, target), i + 1, target)

\* The outer loop  for (i = 1; i < data; i++).
RECURSIVE WaysLoop(_, _, _)
WaysLoop(dp, i, target) ==
    IF i >= target THEN dp
    ELSE WaysLoop(WaysInnerLoop(dp, i, i, target), i + 1, target)

\* The solver on an integer for which new Array(data + 1) succeeds with data >= 0.
TotalWays(target) ==
    At(WaysLoop([j \in 1..(target + 1) |-> IF j = 1 THEN 1 ELSE 0], 1, target), target)

solveTotalWaysToSum(payload) ==
    IF payload.t \notin {"number", "fraction"} THEN Return(0)
    ELSE IF ~ValidArrayLength(IF payload.t = "number" THEN JSNumber(payload.v + 1) ELSE payload)
    THEN Throw("RangeError")
    ELSE IF payload.v < 0 THEN Return(0)
    ELSE Return(TotalWays(payload.v))

(***************************************************************************)
(* Proper 2-Coloring of a Graph on an untyped payload.                     *)
(***************************************************************************)
\* The test an edge passes before it is added to the adjacency list.
IsValidEdge(edge, numVertices) ==
    /\ edge.t = "array" /\ Len(edge.v) = 2
    /\ edge.v[1].t = "number" /\ edge.v[2].t = "number"
    /\ edge.v[1].v >= 0 /\ edge.v[1].v < numVertices
    /\ edge.v[2].v >= 0 /\ edge.v[2].v < numVertices

RECURSIVE ValidEdges(_, _)
ValidEdges(edges, numVertices) ==
    IF edges = <<>> THEN <<>>
    ELSE (IF IsValidEdge(Head(edges), numVertices)
          THEN << <<Head(edges).v[1].v, Head(edges).v[2].v>> >> ELSE <<>>)
         \o ValidEdges(Tail(edges), numVertices)

\* Array.from({length: numVertices}) clamps its length and never throws;
\* new Array(numVertices).fill(-1) throws unless numVertices is a valid length.
solveProper2ColoringGraph(payload) ==
    IF payload.t # "array" \/ Len(payload.v) # 2 THEN Return(<<>>)
    ELSE LET numVertices == payload.v[1]
             edges == payload.v[2]
         IN  IF numVertices.t \notin {"number", "fraction"} \/ edges.t # "array"
             THEN Return(<<>>)
             ELSE IF ~ValidArrayLength(numVertices) THEN Throw("RangeError")
             ELSE Return(Proper2Coloring(numVertices.v,
                                         ValidEdges(edges.v, numVertices.v)))

(***************************************************************************)
(* The caller: hand a payload of any type to a solver.                     *)
(***************************************************************************)
JSEdge(u, v) == JSArray(<<JSNumber(u), JSNumber(v)>>)

EdgePayloads ==
    {JSString(<<"x">>), JSNull, JSArray(<<>>),
     JSArray(<<JSEdge(0, 1)>>),
     JSArray(<<JSEdge(0, 1), JSEdge(0, 2), JSEdge(1, 2)>>),
     JSArray(<<JSNumber(1), JSEdge(0, 7), JSArray(<<JSNumber(0)>>), JSEdge(1, 0)>>)}

VertexPayloads ==
    {JSNumber(k) : k \in (0 - MaxNegative)..MaxNegative}
    \cup {JSFraction(3), JSString(<<"2">>), JSUndefined}

AnyPayloads ==
    VertexPayloads
    \cup {JSFraction(0 - 1), JSNull, JSString(<<>>), JSArray(<<>>),
          JSArray(<<JSNumber(5)>>)}
    \cup {JSArray(<<nv, es>>) : nv \in VertexPayloads, es \in EdgePayloads}

InitAny ==
    /\ data \in AnyPayloads
    /\ contractType = ""
    /\ out = <<>>
    /\ raised = "none"
    /\ log = <<>>
    /\ chunks = <<>>
    /\ frame = NoFrame

CallTotalWaysToSum ==
    /\ log = <<>>
    /\ contractType' = "Total Ways to Sum"
    /\ LET res == solveTotalWaysToSum(data)
       IN  /\ raised' = res.raised
           /\ out' = res.value
           /\ log' = Append(log, res)
    /\ UNCHANGED <<data, chunks, frame>>

CallProper2ColoringGraphAny ==
    /\ log = <<>>
    /\ contractType' = "Proper 2-Coloring of a Graph"
    /\ LET res == solveProper2ColoringGraph(data)
       IN  /\ raised' = res.raised
           /\ out' = res.value
           /\ log' = Append(log, res)
    /\ UNCHANGED <<data, chunks, frame>>

NextAny == CallTotalWaysToSum \/ CallProper2ColoringGraphAny

SpecAny == InitAny /\ [][NextAny]_vars

\* The payload has the wrong type or arity for the solver.
WrongShape(type, payload) ==
    IF type = "Total Ways to Sum" THEN payload.t \notin {"number", "fraction"}
    ELSE \/ payload.t # "array"
         \/ Len(payload.v) # 2
         \/ payload.v[1].t \notin {"number", "fraction"}
         \/ payload.v[2].t # "array"

\* C3: a solver other than Square Root returns for every payload, and returns
\* its sentinel (0 or []) when the payload has the wrong type or arity.
NoSolverRaises ==
    Len(log) = 1 =>
        /\ raised = "none"
        /\ WrongShape(contractType, data) =>
              out = (IF contractType = "Total Ways to Sum" THEN 0 ELSE <<>>)

(***************************************************************************)
(* The registry: contractSolvers is an object literal, so besides its own  *)
(* keys it inherits the members of Object.prototype.                       *)
(***************************************************************************)
\* The own keys of contractSolvers, in the order of the literal.
contractSolvers ==
    << "Encryption I: Caesar Cipher", "Array Jumping Game",
       "Find Largest Prime Factor", "Subarray with Maximum Sum",
       "Total Ways to Sum", "Proper 2-Coloring of a Graph",
       "Algorithmic Stock Trader III", "Merge Overlapping Intervals",
       "Generate IP Addresses", "Find All Valid Math Expressions",
       "Compression I: RLE Compression", "Total Ways to Sum II",
       "Square Root", "Array Jumping Game II",
       "Algorithmic Stock Trader IV", "Shortest Path in a Grid",
       "Spiralize Matrix", "Unique Paths in a Grid II",
       "Minimum Path Sum in a Triangle", "Encryption II: Vigenere Cipher",  \* Vigen\`ere in the source
       "Algorithmic Stock Trader I", "HammingCodes: Integer to Encoded Binary",
       "Compression III: LZ Compression", "Compression II: LZ Decompression",
       "Unique Paths in a Grid I" >>

OwnKeys == {contractSolvers[k] : k \in 1..Len(contractSolvers)}

\* The members every object literal inherits from Object.prototype.
ObjectPrototypeKeys ==
    {"constructor", "toString", "toLocaleString", "valueOf", "hasOwnProperty",
     "isPrototypeOf", "propertyIsEnumerable", "__proto__"}

\* contractSolvers[contractType]: the own entry, else the inherited member,
\* else undefined.
Lookup(id) ==
    IF id \in OwnKeys THEN "solver of " \o id
    ELSE IF id \in ObjectPrototypeKeys
    THEN "Object.prototype." \o id
    ELSE "undefined"

\* return contractSolvers[contractType] || null
getContractSolver(id) ==
    IF Lookup(id) = "undefined" THEN "null" ELSE Lookup(id)

\* return contractType in contractSolvers  (the prototype chain included)
hasContractSolver(id) ==
    id \in OwnKeys \/ id \in ObjectPrototypeKeys

\* return Object.keys(contractSolvers)  (own enumerable keys only)
getSupportedContractTypes == contractSolvers

(***************************************************************************)
(* The caller: look identifiers up in the registry.                        *)
(***************************************************************************)
MaxLookups == 2

Identifiers ==
    OwnKeys \cup ObjectPrototypeKeys
    \cup {"Unknown Contract", "", "array jumping game", "Square Root "}

InitRegistry ==
    /\ data \in Identifiers
    /\ contractType = ""
    /\ out = "null"
    /\ raised = "none"
    /\ log = <<>>
    /\ chunks = <<>>
    /\ frame = NoFrame

CallGetContractSolver ==
    /\ Len(log) < MaxLookups
    /\ contractType' = "getContractSolver"
    /\ out' = getContractSolver(data)
    /\ log' = Append(log, [call |-> "getContractSolver", found |-> out' # "null"])
    /\ UNCHANGED <<data, raised, chunks, frame>>

CallHasContractSolver ==
    /\ Len(log) < MaxLookups
    /\ contractType' = "hasContractSolver"
    /\ out' = hasContractSolver(data)
    /\ log' = Append(log, [call |-> "hasContractSolver", found |-> out'])
    /\ UNCHANGED <<data, raised, chunks, frame>>

CallGetSupportedContractTypes ==
    /\ Len(log) < MaxLookups
    /\ contractType' = "getSupportedContractTypes"
    /\ out' = getSupportedContractTypes
    /\ log' = Append(log, [call |-> "getSupportedContractTypes",
                           found |-> \E k \in 1..Len(out') : out'[k] = data])
    /\ UNCHANGED <<data, raised, chunks, frame>>

NextRegistry ==
    \/ CallGetContractSolver
    \/ CallHasContractSolver
    \/ CallGetSupportedContractTypes

SpecRegistry == InitRegistry /\ [][NextRegistry]_vars

\* C5: getContractSolver(id) returns a solver exactly when id is enumerated by
\* getSupportedContractTypes() and null otherwise, and hasContractSolver(id)
\* is true for exactly the same identifiers.
RegistryLookupExact ==
    \A k \in 1..Len(log) :
        log[k].found <=> (\E j \in 1..Len(getSupportedContractTypes) :
                             getSupportedContractTypes[j] = data)

(***************************************************************************)
(* Find All Valid Math Expressions                                         *)
(***************************************************************************)
MaxDigits == 3
MaxTarget == 4

isValidNumber(str) == Len(str) # 0 /\ ~(Len(str) > 1 /\ str[1] = "0")

\* String.prototype.split on a class of one-character separators.
RECURSIVE Split(_, _)
Split(str, seps) ==
    IF \A k \in 1..Len(str) : str[k] \notin seps THEN <<str>>
    ELSE LET k == CHOOSE k \in 1..Len(str) :
                      str[k] \in seps /\ \A j \in 1..(k - 1) : str[j] \notin seps
         IN  <<SubSeq(str, 1, k - 1)>> \o Split(SubSeq(str, k + 1, Len(str)), seps)

\* The separators a capturing split leaves between the parts, in order.
Separators(str, seps) == SelectSeq(str, LAMBDA ch : ch \in seps)

hasLeadingZeros(expr) ==
    LET numbers == Split(expr, {"+", "-", "*"})
    IN  \E k \in 1..Len(numbers) : Len(numbers[k]) > 1 /\ numbers[k][1] = "0"

\* multResult *= Number(multPart) over the factors of one part (Number('') is 0).
RECURSIVE MultResult(_, _)
MultResult(multParts, k) ==
    IF k > Len(multParts) THEN 1
    ELSE DecimalValue(multParts[k]) * MultResult(multParts, k + 1)

\* The loop of evaluate over the parts; an empty part is skipped with its sign.
RECURSIVE EvaluateLoop(_, _, _, _, _)
EvaluateLoop(parts, signs, k, sign, result) ==
    IF k > Len(parts) THEN result
    ELSE IF parts[k] = <<>> THEN EvaluateLoop(parts, signs, k + 1, sign, result)
    ELSE EvaluateLoop(parts, signs, k + 1,
             IF k <= Len(signs) THEN (IF signs[k] = "+" THEN 1 ELSE 0 - 1) ELSE sign,
             result + sign * MultResult(Split(parts[k], {"*"}), 1))

evaluate(expr) ==
    EvaluateLoop(Split(expr, {"+", "-"}), Separators(expr, {"+", "-"}), 1, 1, 0)

RECURSIVE backtrack(_, _, _, _, _)
backtrack(digits, target, start, current, results) ==
    IF start = Len(digits)
    THEN IF isValidNumber(current) /\ ~hasLeadingZeros(current) /\ evaluate(current) = target
         THEN Append(results, current)
         ELSE results
    ELSE LET currentChar == At(digits, start)
             WithOp(res, op) ==
                 LET nextExpression == current \o <<op, currentChar>>
                 IN  IF current # <<>> /\ ~hasLeadingZeros(nextExpression)
                     THEN backtrack(digits, target, start + 1, nextExpression, res)
                     ELSE res
             afterOps == WithOp(WithOp(WithOp(results, "+"), "-"), "*")
             newCurrent == Append(current, currentChar)
         IN  IF isValidNumber(newCurrent) /\ ~hasLeadingZeros(newCurrent)
             THEN backtrack(digits, target, start + 1, newCurrent, afterOps)
             ELSE afterOps

solveFindAllValidMathExpressions(d) == backtrack(d[1], d[2], 0, <<>>, <<>>)

ExpressionDigits == {"0", "1", "2"}

InitExpressions ==
    /\ \E len \in 0..MaxDigits, target \in (0 - MaxTarget)..MaxTarget :
           \E digits \in [1..len -> ExpressionDigits] : data = <<digits, target>>
    /\ contractType = ""
    /\ out = <<>>
    /\ raised = "none"
    /\ log = <<>>
    /\ chunks = <<>>
    /\ frame = NoFrame

CallFindAllValidMathExpressions ==
    /\ log = <<>>
    /\ contractType' = "Find All Valid Math Expressions"
    /\ out' = solveFindAllValidMathExpressions(data)
    /\ raised' = "none"
    /\ log' = Append(log, Return(out'))
    /\ UNCHANGED <<data, chunks, frame>>

NextExpressions == CallFindAllValidMathExpressions

SpecExpressions == InitExpressions /\ [][NextExpressions]_vars

\* What stands between adjacent digits: an operator or nothing.
Gaps == {"+", "-", "*", ""}

\* The text of the expression that puts gap[k] between digits k and k + 1.
RECURSIVE ExpressionText(_, _, _)
ExpressionText(digits, gap, k) ==
    IF k > Len(digits) THEN <<>>
    ELSE <<digits[k]>>
         \o (IF k < Len(digits) /\ gap[k] # "" THEN <<gap[k]>> ELSE <<>>)
         \o ExpressionText(digits, gap, k + 1)

\* An operand of two or more digits starts with 0.
OperandLeadingZero(digits, gap) ==
    \E k \in 1..(Len(digits) - 1) :
        /\ digits[k] = "0"
        /\ gap[k] = ""
        /\ (k = 1 \/ gap[k - 1] # "")

\* The value of the expression, '*' binding tighter than '+' and '-':
\* total is the sum of the finished terms, term the signed product of the
\* finished factors of the current term, num the digits of the current operand.
RECURSIVE ExpressionValue(_, _, _, _, _, _)
ExpressionValue(digits, gap, k, total, term, num) ==
    LET operand == 10 * num + parseInt(digits[k]) IN
    IF k = Len(digits) THEN total + term * operand
    ELSE IF gap[k] = "" THEN ExpressionValue(digits, gap, k + 1, total, term, operand)
    ELSE IF gap[k] = "*" THEN ExpressionValue(digits, gap, k + 1, total, term * operand, 0)
    ELSE ExpressionValue(digits, gap, k + 1, total + term * operand,
                         IF gap[k] = "+" THEN 1 ELSE 0 - 1, 0)

ValidExpressions(digits, target) ==
    IF digits = <<>> THEN {}
    ELSE {ExpressionText(digits, gap, 1) :
            gap \in {g \in [1..(Len(digits) - 1) -> Gaps] :
                        /\ ~OperandLeadingZero(digits, g)
                        /\ ExpressionValue(digits, g, 1, 0, 1, 0) = target}}

\* C11: the solver returns exactly the expressions over the digits, without
\* an operand that has a leading zero (a lone 0 is allowed), whose value is
\* the target; none is omitted and none is returned twice.
FindAllExpressionsExact ==
    Len(log) = 1 =>
        /\ {out[k] : k \in 1..Len(out)} = ValidExpressions(data[1], data[2])
        /\ \A j, k \in 1..Len(out) : out[j] = out[k] => j = k

(***************************************************************************)
(* Generate IP Addresses                                                   *)
(***************************************************************************)
MaxAddressLen == 6
MaxAddressRun == 13

\* The octet test without the leading-zero line.
isValidOctetByValue(str) ==
    /\ ~(Len(str) = 0 \/ Len(str) > 3)
    /\ DecimalValue(str) >= 0 /\ DecimalValue(str) <= 255

isValidOctet(str) ==
    /\ ~(Len(str) = 0 \/ Len(str) > 3)
    /\ ~(str[1] = "0" /\ Len(str) > 1)
    /\ DecimalValue(str) >= 0 /\ DecimalValue(str) <= 255

\* Array.prototype.join('.')
RECURSIVE JoinDot(_)
JoinDot(parts) ==
    IF parts = <<>> THEN <<>>
    ELSE IF Len(parts) = 1 THEN parts[1]
    ELSE parts[1] \o <<".">> \o JoinDot(Tail(parts))

\* backtrack(start, parts) entered with the results found so far; SegmentLoop
\* is its for loop at the segment length len.
RECURSIVE AddressBacktrack(_, _, _, _)
RECURSIVE SegmentLoop(_, _, _, _, _)
AddressBacktrack(s, start, parts, results) ==
    IF Len(parts) = 4
    THEN IF start = Len(s) THEN Append(results, JoinDot(parts)) ELSE results
    ELSE LET remainingParts == 4 - Len(parts)
             remainingChars == Len(s) - start
         IN  IF remainingChars < remainingParts \/ remainingChars > remainingParts * 3
             THEN results
             ELSE SegmentLoop(s, start, parts, 1, results)

SegmentLoop(s, start, parts, len, results) ==
    IF ~(len <= 3 /\ start + len <= Len(s)) THEN results
    ELSE LET segment == substring(s, start, start + len)
         IN  IF ~isValidOctet(segment) THEN results
             ELSE SegmentLoop(s, start, parts, len + 1,
                      AddressBacktrack(s, start + len, Append(parts, segment), results))

solveGenerateIPAddresses(d) ==
    IF Len(d) = 0 THEN <<>>
    ELSE AddressBacktrack(Trim(d), 0, <<>>, <<>>)

AddressDigits == {"0", "2", "5", "6"}

\* Long digit strings: a pattern repeated up to and beyond twelve characters.
AddressPatterns == {<<"2", "5", "5">>, <<"1">>, <<"1", "0">>}

RepeatPattern(pat, len) == [k \in 1..len |-> pat[((k - 1) % Len(pat)) + 1]]

InitAddresses ==
    /\ \/ \E len \in 0..MaxAddressLen : \E s \in [1..len -> AddressDigits] : data = s
       \/ \E len \in 0..MaxAddressRun, pat \in AddressPatterns :
              data = RepeatPattern(pat, len)
    /\ contractType = ""
    /\ out = <<>>
    /\ raised = "none"
    /\ log = <<>>
    /\ chunks = <<>>
    /\ frame = NoFrame

CallGenerateIPAddresses ==
    /\ log = <<>>
    /\ contractType' = "Generate IP Addresses"
    /\ out' = solveGenerateIPAddresses(data)
    /\ raised' = "none"
    /\ log' = Append(log, Return(out'))
    /\ UNCHANGED <<data, chunks, frame>>

NextAddresses == CallGenerateIPAddresses

SpecAddresses == InitAddresses /\ [][NextAddresses]_vars

\* A segment of an address: value 0..255, no leading zero unless it is "0".
ValidSegment(seg) ==
    /\ Len(seg) \in 1..3
    /\ DecimalValue(seg) <= 255
    /\ (Len(seg) > 1 => seg[1] # "0")

\* The four segments of s of the lengths ls, when ls covers s.
SegmentsOf(s, ls) ==
    [i \in 1..4 |->
        LET before == IF i = 1 THEN 0
                      ELSE IF i = 2 THEN ls[1]
                      ELSE IF i = 3 THEN ls[1] + ls[2]
                      ELSE ls[1] + ls[2] + ls[3]
        IN  SubSeq(s, before + 1, before + ls[i])]

ValidSplits(s) ==
    {ls \in [1..4 -> 1..3] :
        /\ ls[1] + ls[2] + ls[3] + ls[4] = Len(s)
        /\ \A i \in 1..4 : ValidSegment(SegmentsOf(s, ls)[i])}

AddressText(s, ls) ==
    LET seg == SegmentsOf(s, ls)
    IN  seg[1] \o <<".">> \o seg[2] \o <<".">> \o seg[3] \o <<".">> \o seg[4]

\* The lengths of the segments of a returned address.
SegmentLengths(address) ==
    LET seg == Split(address, {"."}) IN [i \in 1..Len(seg) |-> Len(seg[i])]

\* Lengths compared segment by segment from the first, shorter first.
ShorterFirst(a, b) ==
    \E i \in 1..4 : a[i] < b[i] /\ \A j \in 1..(i - 1) : a[j] = b[j]

\* C12: the solver returns exactly the valid splits into four segments, each
\* once, ordered by their segment lengths compared from the first segment.
AddressesExact ==
    Len(log) = 1 =>
        /\ {out[k] : k \in 1..Len(out)} = {AddressText(data, ls) : ls \in ValidSplits(data)}
        /\ Len(out) = Cardinality(ValidSplits(data))
        /\ \A j, k \in 1..Len(out) :
               j < k => ShorterFirst(SegmentLengths(out[j]), SegmentLengths(out[k]))

\* C12 witness: several splits are returned, and one three-digit segment
\* (552) was cut off for exceeding 255.
AddressesWitness ==
    /\ Len(log) = 1
    /\ data = <<"2", "5", "5", "2", "5">>
    /\ Len(out) = 4
    /\ out[1] = <<"2", ".", "5", ".", "5", ".", "2", "5">>
    /\ out[4] = <<"2", "5", ".", "5", ".", "2", ".", "5">>

(***************************************************************************)
(* HammingCodes: Integer to Encoded Binary                                 *)
(***************************************************************************)
MaxHammingInput == 2100
MaxHammingString == 12

\* Number.prototype.toString(2) of a non-negative integer.
RECURSIVE toBinaryString(_)
toBinaryString(k) ==
    IF k < 2 THEN <<Digits[k + 1]>>
    ELSE toBinaryString(k \div 2) \o <<Digits[(k % 2) + 1]>>

\* /^[01]+$/.test(data)
IsBinaryString(cs) == cs # <<>> /\ \A k \in 1..Len(cs) : cs[k] \in {"0", "1"}

\* The leading decimal digits parseInt(data, 10) reads (none: NaN).
RECURSIVE DigitPrefix(_)
DigitPrefix(cs) ==
    IF cs = <<>> \/ ~IsDigit(cs[1]) THEN <<>>
    ELSE <<cs[1]>> \o DigitPrefix(Tail(cs))

\* binary.replace(/^0+/, '') || '0'
RECURSIVE RemoveLeadingZeros(_)
RemoveLeadingZeros(binary) ==
    IF binary = <<>> THEN <<"0">>
    ELSE IF binary[1] = "0" THEN RemoveLeadingZeros(Tail(binary))
    ELSE binary

\* while (Math.pow(2, parityBits) < n + parityBits + 1) parityBits++
RECURSIVE ParityBits(_, _)
ParityBits(n, parityBits) ==
    IF 2 ^ parityBits < n + parityBits + 1 THEN ParityBits(n, parityBits + 1)
    ELSE parityBits

\* (i & (i - 1)) === 0 for i >= 1
IsPowerOfTwo(i) == \E e \in 0..i : 2 ^ e = i

\* The placement loop: result (0-based, as a sequence) after the positions from i on.
RECURSIVE PlaceDataBits(_, _, _, _)
PlaceDataBits(result, dataBits, i, dataIndex) ==
    IF i >= Len(result) THEN result
    ELSE IF ~IsPowerOfTwo(i)
         THEN PlaceDataBits(
                  [result EXCEPT ![i + 1] =
                      IF dataIndex < Len(dataBits) THEN At(dataBits, dataIndex) ELSE 0],
                  dataBits, i + 1, dataIndex + 1)
         ELSE PlaceDataBits(result, dataBits, i + 1, dataIndex)

\* The indices a parity pass visits from the start of each block (wrong).
CoveredFromZero(idx, pos) == idx >= pos /\ (idx % (2 * pos)) < pos

\* The indices i + j the two inner loops of a parity pass visit:
\* i = pos, 3 pos, 5 pos, ... and 0 <= j < pos.
Covered(idx, pos) == idx >= pos /\ ((idx - pos) % (2 * pos)) < pos

\* parity ^= result[i + j] over a set of indices
XorOver(result, indices) == Cardinality({idx \in indices : At(result, idx) = 1}) % 2

RECURSIVE ParityLoop(_, _, _)
ParityLoop(result, p, parityBits) ==
    IF p >= parityBits THEN result
    ELSE LET pos == 2 ^ p
             parity == XorOver(result, {idx \in 0..(Len(result) - 1) : Covered(idx, pos)})
         IN  ParityLoop([result EXCEPT ![pos + 1] = parity], p + 1, parityBits)

HammingEncode(binaryIn) ==
    LET binary == RemoveLeadingZeros(binaryIn)
        dataBits == [k \in 1..Len(binary) |-> parseInt(binary[k])]
        n == Len(dataBits)
        parityBits == ParityBits(n, 0)
        totalBits == n + parityBits + 1
        placed == PlaceDataBits([k \in 1..totalBits |-> 0], dataBits, 1, 0)
        withParity == ParityLoop(placed, 0, parityBits)
        parity0 == XorOver(withParity, 1..(totalBits - 1))
        result == [withParity EXCEPT ![1] = parity0]
    IN  [k \in 1..totalBits |-> Digits[result[k] + 1]]

\* Payloads are non-negative integers and strings.
solveHammingCodes(d) ==
    IF d.t = "number" THEN HammingEncode(toBinaryString(d.v))
    ELSE IF d.t = "string"
         THEN IF IsBinaryString(d.v) THEN HammingEncode(d.v)
              ELSE IF DigitPrefix(d.v) = <<>> THEN <<>>
              ELSE HammingEncode(toBinaryString(DecimalValue(DigitPrefix(d.v))))
    ELSE <<>>

InitHamming ==
    /\ \/ \E k \in 0..MaxHammingInput : data = JSNumber(k)
       \/ \E k \in 0..MaxHammingString : data = JSString(toString(k))
       \/ data = JSString(<<"a">>)
    /\ contractType = ""
    /\ out = <<>>
    /\ raised = "none"
    /\ log = <<>>
    /\ chunks = <<>>
    /\ frame = NoFrame

CallHammingCodes ==
    /\ log = <<>>
    /\ contractType' = "HammingCodes: Integer to Encoded Binary"
    /\ out' = solveHammingCodes(data)
    /\ raised' = "none"
    /\ log' = Append(log, Return(out'))
    /\ UNCHANGED <<data, chunks, frame>>

NextHamming == CallHammingCodes

SpecHamming == InitHamming /\ [][NextHamming]_vars

\* The number of bits of the minimal binary representation of k (1 for 0).
MinimalBits(k) == CHOOSE d \in 1..(k + 1) : k < 2 ^ d /\ (d = 1 \/ k >= 2 ^ (d - 1))

\* Bit number i (1 = most significant) of the d-bit representation of k.
DataBit(k, d, i) == (k \div (2 ^ (d - i))) % 2

\* The least p with 2^p >= d + p + 1.
LeastParity(d) == CHOOSE p \in 0..(d + 1) :
                      /\ 2 ^ p >= d + p + 1
                      /\ \A q \in 0..(p - 1) : 2 ^ q < d + q + 1

\* Bit of the encoded string at position pos (0-based).
EncodedBit(code, pos) == parseInt(At(code, pos))

\* The positions 1..last that are not powers of two, in ascending order.
DataPositions(last) == SelectSeq([i \in 1..last |-> i], LAMBDA i : \A e \in 0..i : 2 ^ e # i)

\* C13: for a non-negative integer with d data bits the result has length
\* d + p + 1 with p least such that 2^p >= d + p + 1, carries the data bits in
\* order on the positions that are not powers of two, and every parity group
\* as well as the whole string has even parity.
HammingEncoded ==
    (Len(log) = 1 /\ data.t = "number") =>
        LET d == MinimalBits(data.v)
            p == LeastParity(d)
            positions == DataPositions(d + p)
        IN  /\ Len(out) = d + p + 1
            /\ \A k \in 1..Len(out) : out[k] \in {"0", "1"}
            /\ Len(positions) = d
            /\ \A i \in 1..d : EncodedBit(out, positions[i]) = DataBit(data.v, d, i)
            /\ \A j \in 0..(p - 1) :
                   Cardinality({pos \in 0..(d + p) :
                       (pos \div (2 ^ j)) % 2 = 1 /\ EncodedBit(out, pos) = 1}) % 2 = 0
            /\ Cardinality({pos \in 0..(d + p) : EncodedBit(out, pos) = 1}) % 2 = 0

\* C13 witness: 21 = 10101 is encoded with four parity bits and the overall bit.
HammingWitness ==
    /\ Len(log) = 1
    /\ data = JSNumber(21)
    /\ out = <<"1", "0", "0", "1", "1", "0", "1", "0", "1", "1">>

(***************************************************************************)
(* Compression I: RLE Compression                                          *)
(***************************************************************************)
MaxRleLen == 5
MaxRleRun == 20

\* while (i + count < input.length && input[i + count] === char) count++
RECURSIVE CountRun(_, _, _)
CountRun(input, i, count) ==
    IF i + count < Len(input) /\ At(input, i + count) = At(input, i)
    THEN CountRun(input, i, count + 1)
    ELSE count

\* A run cut at ten characters (wrong: the length takes two digits).
RunLengthTen(count) == Min(count, 9 + 1)

\* Math.min(count, 9)
RunLength(count) == Min(count, 9)

\* while (count > 0) { result += runLength.toString() + char; count -= runLength }
RECURSIVE EmitRun(_, _, _)
EmitRun(result, char, count) ==
    IF count > 0
    THEN EmitRun(result \o toString(RunLength(count)) \o <<char>>, char,
                 count - RunLength(count))
    ELSE result

RECURSIVE RLELoop(_, _, _)
RLELoop(input, i, result) ==
    IF i < Len(input)
    THEN LET originalCount == CountRun(input, i, 1)
         IN  RLELoop(input, i + originalCount, EmitRun(result, At(input, i), originalCount))
    ELSE result

solveRLECompression(d) ==
    IF Len(d) = 0 THEN <<>> ELSE RLELoop(Trim(d), 0, <<>>)

RleAlphabet == {"a", "b", "3", " "}

InitRLE ==
    /\ \/ \E len \in 0..MaxRleLen : \E s \in [1..len -> RleAlphabet] : data = s
       \/ \E len \in 0..MaxRleRun, lead \in 0..2 :
              data = [k \in 1..(lead + len) |-> IF k <= lead THEN "b" ELSE "a"]
    /\ contractType = ""
    /\ out = <<>>
    /\ raised = "none"
    /\ log = <<>>
    /\ chunks = <<>>
    /\ frame = NoFrame

CallRLECompression ==
    /\ log = <<>>
    /\ contractType' = "Compression I: RLE Compression"
    /\ out' = solveRLECompression(data)
    /\ raised' = "none"
    /\ log' = Append(log, Return(out'))
    /\ UNCHANGED <<data, chunks, frame>>

NextRLE == CallRLECompression

SpecRLE == InitRLE /\ [][NextRLE]_vars

\* The text a sequence of (digit, character) pairs stands for.
RECURSIVE ExpandPairs(_)
ExpandPairs(code) ==
    IF Len(code) < 2 THEN <<>>
    ELSE [k \in 1..parseInt(code[1]) |-> code[2]] \o ExpandPairs(SubSeq(code, 3, Len(code)))

\* C14: the result is a sequence of (digit, character) pairs with digits 1..9
\* that expands to the trimmed input, and two consecutive pairs carry the same
\* character only when the first has the digit 9.
RLEPairs ==
    Len(log) = 1 =>
        /\ Len(out) % 2 = 0
        /\ \A k \in 1..(Len(out) \div 2) :
               out[2 * k - 1] \in {Digits[j] : j \in 2..10}
        /\ ExpandPairs(out) = Trim(data)
        /\ \A k \in 1..((Len(out) \div 2) - 1) :
               out[2 * k] = out[2 * k + 2] => out[2 * k - 1] = "9"

\* C14 witness: a run of twelve is split into 9 and 3, after a shorter run.
RLEWitness ==
    /\ Len(log) = 1
    /\ Len(data) = 13
    /\ out = <<"1", "b", "9", "a", "3", "a">>

(***************************************************************************)
(* Encryption I: Caesar Cipher                                             *)
(***************************************************************************)
MaxCaesarLen == 2
MaxShift == 30

UpperCase == <<"A", "B", "C", "D", "E", "F", "G", "H", "I", "J", "K", "L", "M",
               "N", "O", "P", "Q", "R", "S", "T", "U", "V", "W", "X", "Y", "Z">>

LowerCase == <<"a", "b", "c", "d", "e", "f", "g", "h", "i", "j", "k", "l", "m",
               "n", "o", "p", "q", "r", "s", "t", "u", "v", "w", "x", "y", "z">>

\* String.prototype.toUpperCase of one ASCII character.
toUpperCase(ch) ==
    IF \E k \in 1..26 : LowerCase[k] = ch
    THEN UpperCase[CHOOSE k \in 1..26 : LowerCase[k] = ch]
    ELSE ch

\* code >= 65 && code <= 90
IsUpperCaseLetter(ch) == \E k \in 1..26 : UpperCase[k] = ch

\* charCodeAt(0) - 65 of an upper-case letter.
LetterCode(ch) == (CHOOSE k \in 1..26 : UpperCase[k] = ch) - 1

\* String.fromCharCode(code + 65) for 0 <= code <= 25.
fromLetterCode(code) == UpperCase[code + 1]

normalizedShift(shift) == JSRem(JSRem(shift, 26) + 26, 26)

\* A shift to the right (wrong direction).
ShiftedRight(code, normalized) == JSRem(code + normalized, 26)

\* ((code - 65 - normalizedShift + 26) % 26), code counted from 'A'.
Shifted(code, normalized) == JSRem(code - normalized + 26, 26)

RECURSIVE CaesarLoop(_, _, _, _)
CaesarLoop(plaintext, normalized, i, result) ==
    IF i < Len(plaintext)
    THEN LET ch == At(plaintext, i) IN
         IF IsUpperCaseLetter(toUpperCase(ch))
         THEN CaesarLoop(plaintext, normalized, i + 1,
                  Append(result,
                         fromLetterCode(Shifted(LetterCode(toUpperCase(ch)), normalized))))
         ELSE CaesarLoop(plaintext, normalized, i + 1, Append(result, ch))
    ELSE result

solveCaesarCipher(d) ==
    LET result == CaesarLoop(d[1], normalizedShift(d[2]), 0, <<>>)
    IN  [k \in 1..Len(result) |-> toUpperCase(result[k])]

\* Characters of the payloads: letters of both cases from both ends of the
\* alphabet, a digit, a blank and punctuation.
CaesarAlphabet == {"A", "Z", "a", "c", "z", "3", " ", "-"}

InitCaesar ==
    /\ \E len \in 0..MaxCaesarLen, shift \in (0 - MaxShift)..MaxShift :
           \E plaintext \in [1..len -> CaesarAlphabet] : data = <<plaintext, shift>>
    /\ contractType = ""
    /\ out = <<>>
    /\ raised = "none"
    /\ log = <<>>
    /\ chunks = <<>>
    /\ frame = NoFrame

CallCaesarCipher ==
    /\ log = <<>>
    /\ contractType' = "Encryption I: Caesar Cipher"
    /\ out' = solveCaesarCipher(data)
    /\ raised' = "none"
    /\ log' = Append(log, Return(out'))
    /\ UNCHANGED <<data, chunks, frame>>

NextCaesar == CallCaesarCipher

SpecCaesar == InitCaesar /\ [][NextCaesar]_vars

\* Position 0..25 of a letter of either case in the alphabet.
AlphabetPosition(ch) ==
    (CHOOSE k \in 1..26 : UpperCase[k] = ch \/ LowerCase[k] = ch) - 1

IsLetter(ch) == \E k \in 1..26 : UpperCase[k] = ch \/ LowerCase[k] = ch

MaxVigenereLen == 3
MaxKeywordLen == 1

\* String.prototype.toUpperCase of a string of ASCII characters.
toUpperCaseString(cs) == [k \in 1..Len(cs) |-> toUpperCase(cs[k])]

RECURSIVE VigenereLoop(_, _, _, _, _)
VigenereLoop(upperPlaintext, upperKeyword, i, keyIndex, result) ==
    IF i < Len(upperPlaintext)
    THEN LET char == At(upperPlaintext, i) IN
         IF IsUpperCaseLetter(char)
         THEN LET keyChar == At(upperKeyword, keyIndex % Len(upperKeyword))
                  plainCode == LetterCode(char)
                  keyCode == LetterCode(keyChar)
                  cipherCode == (plainCode + keyCode) % 26
              IN  VigenereLoop(upperPlaintext, upperKeyword, i + 1, keyIndex + 1,
                               Append(result, fromLetterCode(cipherCode)))
         ELSE VigenereLoop(upperPlaintext, upperKeyword, i + 1, keyIndex,
                           Append(result, char))
    ELSE result

\* Keywords of the payloads are letters.
solveVigenereCipher(d) ==
    LET upperPlaintext == toUpperCaseString(d[1])
        upperKeyword == toUpperCaseString(d[2])
    IN  IF Len(upperKeyword) = 0 THEN upperPlaintext
        ELSE VigenereLoop(upperPlaintext, upperKeyword, 0, 0, <<>>)

VigenereAlphabet == {"A", "Z", "a", "y", " ", "3"}

KeywordAlphabet == {"A", "B", "c"}

InitVigenere ==
    /\ \E len \in 0..MaxVigenereLen, klen \in 0..MaxKeywordLen :
           \E plaintext \in [1..len -> VigenereAlphabet],
              keyword \in [1..klen -> KeywordAlphabet] : data = <<plaintext, keyword>>
    /\ contractType = ""
    /\ out = <<>>
    /\ raised = "none"
    /\ log = <<>>
    /\ chunks = <<>>
    /\ frame = NoFrame

CallVigenereCipher ==
    /\ log = <<>>
    /\ contractType' = "Encryption II: Vigenere Cipher"
    /\ out' = solveVigenereCipher(data)
    /\ raised' = "none"
    /\ log' = Append(log, Return(out'))
    /\ UNCHANGED <<data, chunks, frame>>

NextVigenere == CallVigenereCipher

SpecVigenere == InitVigenere /\ [][NextVigenere]_vars

\* C16: with the empty keyword the solver returns the plaintext unchanged,
\* whatever the case of its letters.
VigenereEmptyKeywordIdentity ==
    (Len(log) = 1 /\ data[2] = <<>>) => out = data[1]

(***************************************************************************)
(* Array Jumping Game and Array Jumping Game II                            *)
(***************************************************************************)
MaxJumpLen == 5
MaxJump == 3

\* A jump must go strictly past the last index (wrong).
ReachesPastEnd(currentEnd, length) == currentEnd > length - 1

\* currentEnd >= nums.length - 1
ReachesEnd(currentEnd, length) == currentEnd >= length - 1

RECURSIVE JumpingLoopII(_, _, _, _, _)
JumpingLoopII(nums, i, jumps, currentEnd, farthest) ==
    IF i < Len(nums) - 1
    THEN LET far == Max(farthest, i + At(nums, i)) IN
         IF i = currentEnd
         THEN IF ReachesEnd(far, Len(nums)) THEN jumps + 1
              ELSE JumpingLoopII(nums, i + 1, jumps + 1, far, far)
         ELSE JumpingLoopII(nums, i + 1, jumps, currentEnd, far)
    ELSE 0

solveArrayJumpingGameII(nums) ==
    IF Len(nums) = 0 THEN 0
    ELSE IF Len(nums) = 1 THEN 0
    ELSE JumpingLoopII(nums, 0, 0, 0, 0)

\* A jump of the full distance is not taken (wrong).
WithinJumpStrict(j, jumpDistance) == j < jumpDistance

\* j <= jumpDistance
WithinJump(j, jumpDistance) == j <= jumpDistance

\* for (j = 1; j <= jumpDistance && i + j < n; j++) canReach[i + j] = true
RECURSIVE MarkReachable(_, _, _, _)
MarkReachable(canReach, i, j, jumpDistance) ==
    IF WithinJump(j, jumpDistance) /\ i + j < Len(canReach)
    THEN MarkReachable([canReach EXCEPT ![i + j + 1] = TRUE], i, j + 1, jumpDistance)
    ELSE canReach

RECURSIVE JumpingLoop(_, _, _)
JumpingLoop(d, canReach, i) ==
    IF i < Len(d)
    THEN JumpingLoop(d,
             IF At(canReach, i) THEN MarkReachable(canReach, i, 1, At(d, i)) ELSE canReach,
             i + 1)
    ELSE canReach

solveArrayJumpingGame(d) ==
    IF Len(d) <= 1 THEN 0
    ELSE LET canReach == JumpingLoop(d, [k \in 1..Len(d) |-> k = 1], 0)
         IN  IF At(canReach, Len(d) - 1) THEN 1 ELSE 0

InitJumping ==
    /\ \E len \in 0..MaxJumpLen : \E nums \in [1..len -> 0..MaxJump] : data = nums
    /\ contractType = ""
    /\ out = 0
    /\ raised = "none"
    /\ log = <<>>
    /\ chunks = <<>>
    /\ frame = NoFrame

CallArrayJumpingGame ==
    /\ log = <<>>
    /\ contractType' = "Array Jumping Game"
    /\ out' = solveArrayJumpingGame(data)
    /\ raised' = "none"
    /\ log' = Append(log, Return(out'))
    /\ UNCHANGED <<data, chunks, frame>>

CallArrayJumpingGameII ==
    /\ log = <<>>
    /\ contractType' = "Array Jumping Game II"
    /\ out' = solveArrayJumpingGameII(data)
    /\ raised' = "none"
    /\ log' = Append(log, Return(out'))
    /\ UNCHANGED <<data, chunks, frame>>

NextJumping == CallArrayJumpingGame \/ CallArrayJumpingGameII

SpecJumping == InitJumping /\ [][NextJumping]_vars

\* The indices (0-based) reachable from index 0 with at most m jumps, a jump
\* from i going to any of i + 1 .. i + a[i].
RECURSIVE ReachableWithin(_, _)
ReachableWithin(a, m) ==
    IF m = 0 THEN {0}
    ELSE LET before == ReachableWithin(a, m - 1)
         IN  before \cup {j \in 0..(Len(a) - 1) :
                             \E i \in before : i < j /\ j <= i + At(a, i)}

LastReachable(a) == (Len(a) - 1) \in ReachableWithin(a, Len(a))

MinimumJumps(a) ==
    CHOOSE m \in 0..Len(a) :
        /\ (Len(a) - 1) \in ReachableWithin(a, m)
        /\ \A fewer \in 0..(m - 1) : (Len(a) - 1) \notin ReachableWithin(a, fewer)

\* C17: Array Jumping Game II returns the minimum number of jumps to the
\* last index, 0 when it cannot be reached and 0 for length 0 or 1.
JumpingGameIIMinimum ==
    (Len(log) = 1 /\ contractType = "Array Jumping Game II") =>
        IF Len(data) <= 1 THEN out = 0
        ELSE IF LastReachable(data) THEN out = MinimumJumps(data)
        ELSE out = 0

\* C17 witness: three jumps are needed and a longer first jump does not help.
JumpingGameIIWitness ==
    /\ Len(log) = 1
    /\ contractType = "Array Jumping Game II"
    /\ data = <<2, 1, 1, 1, 0>>
    /\ out = 3

MaxWaysTarget == 20
MaxSumTarget == 8
MaxCoin == 4
MaxCoins == 3

\* The number of ordered sequences of numbers that sum to the amount (wrong:
\* the loops over amounts and numbers exchanged).
RECURSIVE OrderedWays(_, _)
RECURSIVE OrderedWaysFrom(_, _, _)
OrderedWays(amount, numbers) ==
    IF amount = 0 THEN 1 ELSE OrderedWaysFrom(amount, numbers, 1)

OrderedWaysFrom(amount, numbers, k) ==
    IF k > Len(numbers) THEN 0
    ELSE (IF numbers[k] <= amount THEN OrderedWays(amount - numbers[k], numbers) ELSE 0)
         + OrderedWaysFrom(amount, numbers, k + 1)

TotalWaysOrdered(target, numbers) == OrderedWays(target, numbers)

\* for (i = num; i <= target; i++) dp[i] += dp[i - num]
RECURSIVE NumberLoop(_, _, _, _)
NumberLoop(dp, num, i, target) ==
    IF i <= target
    THEN NumberLoop([dp EXCEPT ![i + 1] = @ + At(dp, i - num)], num, i + 1, target)
    ELSE dp

\* for (const num of numbers)
RECURSIVE NumbersLoop(_, _, _, _)
NumbersLoop(dp, numbers, k, target) ==
    IF k > Len(numbers) THEN dp
    ELSE NumbersLoop(NumberLoop(dp, numbers[k], numbers[k], target), numbers, k + 1, target)

\* The solver on an integer target >= 0 and a list of positive integers.
TotalWaysII(target, numbers) ==
    At(NumbersLoop([i \in 1..(target + 1) |-> IF i = 1 THEN 1 ELSE 0], numbers, 1, target),
       target)

\* Numbers of the payloads are non-negative integers (JSNumber).
solveTotalWaysToSumII(payload) ==
    IF payload.t # "array" \/ Len(payload.v) # 2 THEN 0
    ELSE LET target == payload.v[1]
             numbers == payload.v[2]
         IN  IF target.t # "number" \/ numbers.t # "array" THEN 0
             ELSE TotalWaysII(target.v, [k \in 1..Len(numbers.v) |-> numbers.v[k].v])

\* Lists of distinct positive integers.
DistinctLists(len) ==
    {c \in [1..len -> 1..MaxCoin] : \A j, k \in 1..len : c[j] = c[k] => j = k}

SumPayload(target, numbers) ==
    JSArray(<<JSNumber(target), JSArray([k \in 1..Len(numbers) |-> JSNumber(numbers[k])])>>)

InitWays ==
    /\ \/ \E target \in 1..MaxWaysTarget : data = JSNumber(target)
       \/ \E target \in 0..MaxSumTarget, len \in 0..MaxCoins :
              \E numbers \in DistinctLists(len) : data = SumPayload(target, numbers)
    /\ contractType = ""
    /\ out = 0
    /\ raised = "none"
    /\ log = <<>>
    /\ chunks = <<>>
    /\ frame = NoFrame

CallTotalWaysToSumI ==
    /\ log = <<>>
    /\ contractType' = "Total Ways to Sum"
    /\ LET res == solveTotalWaysToSum(data)
       IN  /\ raised' = res.raised
           /\ out' = res.value
           /\ log' = Append(log, res)
    /\ UNCHANGED <<data, chunks, frame>>

CallTotalWaysToSumII ==
    /\ log = <<>>
    /\ contractType' = "Total Ways to Sum II"
    /\ out' = solveTotalWaysToSumII(data)
    /\ raised' = "none"
    /\ log' = Append(log, Return(out'))
    /\ UNCHANGED <<data, chunks, frame>>

NextWays == CallTotalWaysToSumI \/ CallTotalWaysToSumII

SpecWays == InitWays /\ [][NextWays]_vars

\* The number of multisets of positive integers, each at most largest, that
\* sum to total: those without the part largest and those with one more of it.
RECURSIVE Partitions(_, _)
Partitions(total, largest) ==
    IF total = 0 THEN 1
    ELSE IF largest = 0 THEN 0
    ELSE Partitions(total, largest - 1)
         + (IF total >= largest THEN Partitions(total - largest, largest) ELSE 0)

\* C19: for N >= 1 Total Ways to Sum returns the number of multisets of
\* positive integers, each at most N - 1, that sum to N.
TotalWaysCountsPartitions ==
    (Len(log) = 1 /\ contractType = "Total Ways to Sum" /\ data.t = "number") =>
        /\ raised = "none"
        /\ out = Partitions(data.v, data.v - 1)

\* C19 witness: 10 has 41 partitions into at least two parts.
TotalWaysWitness ==
    /\ Len(log) = 1
    /\ contractType = "Total Ways to Sum"
    /\ data = JSNumber(10)
    /\ out = 41

\* The number of multisets of the first k elements of c that sum to total:
\* one choice of multiplicity of element k after the other.
RECURSIVE Multisets(_, _, _)
RECURSIVE MultisetsWith(_, _, _, _)
Multisets(c, k, total) ==
    IF k = 0 THEN (IF total = 0 THEN 1 ELSE 0)
    ELSE MultisetsWith(c, k, total, 0)

MultisetsWith(c, k, total, copies) ==
    IF copies * c[k] > total THEN 0
    ELSE Multisets(c, k - 1, total - copies * c[k]) + MultisetsWith(c, k, total, copies + 1)

\* The orders in which a list can be written.
Reorderings(c) ==
    {[k \in 1..Len(c) |-> c[q[k]]] :
        q \in {f \in [1..Len(c) -> 1..Len(c)] : \A j, k \in 1..Len(c) : f[j] = f[k] => j = k}}

\* The list of integers of a payload [T, C].
NumbersOf(payload) == [k \in 1..Len(payload.v[2].v) |-> payload.v[2].v[k].v]

\* C20: for T >= 0 and a list C of distinct positive integers Total Ways to
\* Sum II returns the number of multisets of elements of C that sum to T, in
\* whatever order C is listed.
TotalWaysIICountsMultisets ==
    (Len(log) = 1 /\ contractType = "Total Ways to Sum II" /\ data.t = "array") =>
        LET target == data.v[1].v
            numbers == NumbersOf(data)
        IN  /\ out = Multisets(numbers, Len(numbers), target)
            /\ \A other \in Reorderings(numbers) :
                   solveTotalWaysToSumII(SumPayload(target, other)) = out

\* C20 witness: 1+1+1+1+1, 1+1+1+2, 1+1+3, 1+2+2 and 2+3 make 5 from 3, 1, 2.
TotalWaysIIWitness ==
    /\ Len(log) = 1
    /\ contractType = "Total Ways to Sum II"
    /\ data = SumPayload(5, <<3, 1, 2>>)
    /\ out = 5

(***************************************************************************)
(* Unique Paths in a Grid II                                               *)
(***************************************************************************)
MaxGridRows == 3
MaxGridCols == 3

\* Entry (row, col) of a table of rows, both counted from 0.
Cell(table, row, col) == At(At(table, row), col)

SetCell(table, row, col, value) == [table EXCEPT ![row + 1][col + 1] = value]

\* Every free cell of the first row is reachable (wrong).
FirstRowOpen(dp, col) == 1

\* dp[0][col - 1] || 0
FirstRowBefore(dp, col) == Cell(dp, 0, col - 1)

\* Fill first row
RECURSIVE FillFirstRow(_, _, _)
FillFirstRow(grid, dp, col) ==
    IF col < Len(grid[1])
    THEN FillFirstRow(grid,
             IF Cell(grid, 0, col) = 0 THEN SetCell(dp, 0, col, FirstRowBefore(dp, col))
             ELSE dp,
             col + 1)
    ELSE dp

\* Fill first column
RECURSIVE FillFirstColumn(_, _, _)
FillFirstColumn(grid, dp, row) ==
    IF row < Len(grid)
    THEN FillFirstColumn(grid,
             IF Cell(grid, row, 0) = 0 THEN SetCell(dp, row, 0, Cell(dp, row - 1, 0))
             ELSE dp,
             row + 1)
    ELSE dp

\* Fill rest of the table
RECURSIVE FillRest(_, _, _, _)
FillRest(grid, dp, row, col) ==
    IF row >= Len(grid) THEN dp
    ELSE IF col >= Len(grid[1]) THEN FillRest(grid, dp, row + 1, 1)
    ELSE FillRest(grid,
             IF Cell(grid, row, col) = 0
             THEN SetCell(dp, row, col, Cell(dp, row - 1, col) + Cell(dp, row, col - 1))
             ELSE dp,
             row, col + 1)

\* The payload is an array of rows of equal length.
solveUniquePathsInGridII(grid) ==
    IF Len(grid) = 0 THEN 0
    ELSE LET rows == Len(grid)
             cols == Len(grid[1])
         IN  IF cols = 0 THEN 0
             ELSE IF Cell(grid, 0, 0) = 1 \/ Cell(grid, rows - 1, cols - 1) = 1 THEN 0
             ELSE LET start == SetCell([r \in 1..rows |-> [c \in 1..cols |-> 0]], 0, 0, 1)
                      firstRow == FillFirstRow(grid, start, 1)
                      firstColumn == FillFirstColumn(grid, firstRow, 1)
                      dp == FillRest(grid, firstColumn, 1, 1)
                  IN  Cell(dp, rows - 1, cols - 1)

InitGrid ==
    /\ \/ data = <<>>
       \/ \E rows \in 1..MaxGridRows, cols \in 1..MaxGridCols :
              \E grid \in [1..rows -> [1..cols -> {0, 1}]] : data = grid
    /\ contractType = ""
    /\ out = 0
    /\ raised = "none"
    /\ log = <<>>
    /\ chunks = <<>>
    /\ frame = NoFrame

CallUniquePathsInGridII ==
    /\ log = <<>>
    /\ contractType' = "Unique Paths in a Grid II"
    /\ out' = solveUniquePathsInGridII(data)
    /\ raised' = "none"
    /\ log' = Append(log, Return(out'))
    /\ UNCHANGED <<data, chunks, frame>>

NextGrid == CallUniquePathsInGridII

SpecGrid == InitGrid /\ [][NextGrid]_vars

\* The number of paths from cell (row, col), counted from 1, to the
\* bottom-right cell that step right or down through 0 cells only.
RECURSIVE PathsFrom(_, _, _)
PathsFrom(grid, row, col) ==
    IF row > Len(grid) \/ col > Len(grid[1]) THEN 0
    ELSE IF grid[row][col] # 0 THEN 0
    ELSE IF row = Len(grid) /\ col = Len(grid[1]) THEN 1
    ELSE PathsFrom(grid, row, col + 1) + PathsFrom(grid, row + 1, col)

\* C21: the solver returns the number of right/down paths through 0 cells,
\* 0 when the first or the last cell is 1, and 1 for the grid [[0]].
UniquePathsIICounts ==
    (Len(log) = 1 /\ Len(data) > 0) =>
        /\ out = PathsFrom(data, 1, 1)
        /\ (data[1][1] = 1 \/ data[Len(data)][Len(data[1])] = 1) => out = 0
        /\ data = << <<0>> >> => out = 1

\* C21 witness: an obstacle in the middle of a 3 x 3 grid leaves two paths.
UniquePathsIIWitness ==
    /\ Len(log) = 1
    /\ data = << <<0, 0, 0>>, <<0, 1, 0>>, <<0, 0, 0>> >>
    /\ out = 2

(***************************************************************************)
(* Merge Overlapping Intervals                                             *)
(***************************************************************************)
MaxIntervals == 3
MaxPoint == 3

\* The comparator of the sort: by start ascending, then by end ascending.
ComesBefore(a, b) == IF a[1] # b[1] THEN a[1] - b[1] < 0 ELSE a[2] - b[2] < 0

\* Array.prototype.sort with that comparator (stable): each interval is put
\* behind the sorted intervals that do not come after it.
RECURSIVE InsertSorted(_, _)
InsertSorted(sorted, item) ==
    IF sorted = <<>> THEN <<item>>
    ELSE IF ComesBefore(item, Head(sorted)) THEN <<item>> \o sorted
    ELSE <<Head(sorted)>> \o InsertSorted(Tail(sorted), item)

RECURSIVE SortIntervals(_)
SortIntervals(intervals) ==
    IF intervals = <<>> THEN <<>>
    ELSE InsertSorted(SortIntervals(SubSeq(intervals, 1, Len(intervals) - 1)),
                      intervals[Len(intervals)])

\* Intervals that only touch are kept apart (wrong).
OverlapsStrictly(start, currentEnd) == start < currentEnd

\* start <= currentEnd
Overlaps(start, currentEnd) == start <= currentEnd

RECURSIVE MergeLoop(_, _, _, _, _)
MergeLoop(intervals, i, currentStart, currentEnd, merged) ==
    IF i < Len(intervals)
    THEN LET start == At(intervals, i)[1]
             end == At(intervals, i)[2]
         IN  IF Overlaps(start, currentEnd)
             THEN MergeLoop(intervals, i + 1, currentStart, Max(currentEnd, end), merged)
             ELSE MergeLoop(intervals, i + 1, start, end,
                            Append(merged, <<currentStart, currentEnd>>))
    ELSE Append(merged, <<currentStart, currentEnd>>)

\* The payload is a list of pairs of numbers; the solver works on copies.
solveMergeOverlappingIntervals(d) ==
    IF Len(d) = 0 THEN <<>>
    ELSE LET intervals == SortIntervals(d)
         IN  MergeLoop(intervals, 1, intervals[1][1], intervals[1][2], <<>>)

IntervalPairs == {p \in (0..MaxPoint) \X (0..MaxPoint) : p[1] <= p[2]}

InitIntervals ==
    /\ \E len \in 0..MaxIntervals : \E d \in [1..len -> IntervalPairs] : data = d
    /\ contractType = ""
    /\ out = <<>>
    /\ raised = "none"
    /\ log = <<>>
    /\ chunks = <<>>
    /\ frame = NoFrame

CallMergeOverlappingIntervals ==
    /\ log = <<>>
    /\ contractType' = "Merge Overlapping Intervals"
    /\ out' = solveMergeOverlappingIntervals(data)
    /\ raised' = "none"
    /\ log' = Append(log, Return(out'))
    /\ UNCHANGED <<data, chunks, frame>>

NextIntervals == CallMergeOverlappingIntervals

SpecIntervals == InitIntervals /\ [][NextIntervals]_vars

\* The points of the closed intervals of a list, on a scale of halves so that
\* the gap between two integers counts.
Covered2(intervals) ==
    UNION {(2 * intervals[k][1])..(2 * intervals[k][2]) : k \in 1..Len(intervals)}

\* C22: the result is sorted by start, every interval starts strictly after
\* the previous one ends, the union is the union of the input, and the empty
\* list gives [].
IntervalsMerged ==
    Len(log) = 1 =>
        /\ \A k \in 1..Len(out) : out[k][1] <= out[k][2]
        /\ \A k \in 1..(Len(out) - 1) : out[k][2] < out[k + 1][1]
        /\ Covered2(out) = Covered2(data)
        /\ data = <<>> => out = <<>>

\* C22 witness: unsorted input in which touching intervals are merged and a
\* separate one is kept.
IntervalsWitness ==
    /\ Len(log) = 1
    /\ data = << <<2, 3>>, <<0, 0>>, <<1, 2>> >>
    /\ out = << <<0, 0>>, <<1, 3>> >>

(***************************************************************************)
(* The payload across a call                                               *)
(***************************************************************************)
\* C23: no solver modifies the payload it is given: after a call returns the
\* payload object, nested arrays included, equals its value before the call.
PayloadNeverModified == [][data' = data]_vars

(***************************************************************************)
(* Algorithmic Stock Trader IV: the shortcut against the limited pass      *)
(***************************************************************************)
\* C24: for at least two prices and k >= floor(n / 2) the shortcut result,
\* the sum of the positive consecutive differences, equals what the
\* limited-transaction buy/sell pass computes for the same k and prices.
ShortcutEqualsLimitedPass ==
    (Len(log) = 1 /\ Len(data[2]) >= 2 /\ data[1] >= Len(data[2]) \div 2) =>
        /\ out = UnlimitedProfit(data[2], 1)
        /\ out = LimitedProfit(data[1], data[2])

\* C24 witness: the shortcut is taken with k = floor(n / 2) = 3 and all three
\* transactions are needed.
ShortcutWitness ==
    /\ Len(log) = 1
    /\ data = <<3, <<0, 1, 0, 2, 1, 3>>>>
    /\ IsUnlimited(data[1], data[2])
    /\ out = 5


(***************************************************************************)
(* Find Largest Prime Factor on the integers from 2 up.                    *)
(***************************************************************************)
IsPrime(p) == p >= 2 /\ \A d \in 2..(p - 1) : p % d # 0

PrimeFactors(n) == {p \in 2..n : IsPrime(p) /\ n % p = 0}

LargestPrimeFactor(n) == CHOOSE p \in PrimeFactors(n) : \A q \in PrimeFactors(n) : q <= p

\* C25: for every integer n >= 2 the value Find Largest Prime Factor returns
\* is the largest prime number that divides n.
LargestPrimeFactorReturned ==
    (Len(log) = 1 /\ data >= 2) => out = LargestPrimeFactor(data)

\* 42 = 2 * 3 * 7: halved once, divided by 3, and the remainder 7 survives.
LargestPrimeFactorWitness ==
    /\ Len(log) = 1
    /\ frame = NoFrame
    /\ data = 42
    /\ out = 7


(***************************************************************************)
(* Compression III: the shape of the compressed text.                      *)
(*                                                                         *)
(* Inputs longer than one chunk: a periodic run followed by a free tail,   *)
(* so that back-references, empty literal chunks and empty back-reference  *)
(* chunks all occur.                                                       *)
(***************************************************************************)
MaxTail == 3

InitLZChunks ==
    /\ \E len \in 0..MaxRun : \E p \in 1..3 : \E k \in 0..MaxTail :
           \E tail \in [1..k -> Alphabet] :
               data = Periodic(len, p) \o tail
    /\ contractType = ""
    /\ out = <<>>
    /\ raised = "none"
    /\ log = <<>>
    /\ chunks = <<>>
    /\ frame = NoFrame

SpecLZChunks == InitLZChunks /\ [][NextLZ]_vars

ChunkDigit(c) == CHOOSE d \in 0..9 : toString(d) = <<c>>

\* Reads the text from position k as chunks: isType1 is the kind of the next
\* chunk, encoded the number of characters the chunks read so far stand for,
\* afterZero whether the chunk just read was the empty chunk '0'.
RECURSIVE ChunksWellFormed(_, _, _, _, _)
ChunksWellFormed(s, k, isType1, encoded, afterZero) ==
    IF k >= Len(s) THEN TRUE
    ELSE IF ~IsDigit(At(s, k)) THEN FALSE
    ELSE LET length == ChunkDigit(At(s, k))
         IN  IF length = 0
             THEN /\ ~afterZero
                  /\ ChunksWellFormed(s, k + 1, ~isType1, encoded, TRUE)
             ELSE IF isType1
             THEN /\ length \in 1..9
                  /\ k + 1 + length <= Len(s)
                  /\ ChunksWellFormed(s, k + 1 + length, FALSE, encoded + length, FALSE)
             ELSE /\ length \in 1..9
                  /\ k + 1 < Len(s)
                  /\ IsDigit(At(s, k + 1))
                  /\ ChunkDigit(At(s, k + 1)) \in 1..9
                  /\ ChunkDigit(At(s, k + 1)) <= encoded
                  /\ ChunksWellFormed(s, k + 2, TRUE, encoded + length, FALSE)

\* C26: for every non-empty input the LZ Compression call returns, and what it
\* returns reads as chunks that start with a literal and alternate in kind:
\* a literal has a length digit 1..9 and that many characters, a back-reference
\* a length digit 1..9 and an offset digit 1..9 no larger than the number of
\* characters encoded before it, and no '0' chunk directly follows a '0' chunk.
LZOutputWellFormed ==
    (Len(log) >= 1 /\ Len(data) > 0) =>
        /\ Len(log[1]) > 0
        /\ ChunksWellFormed(log[1], 0, TRUE, 0, FALSE)

\* Nine a's, then b and a: a full literal, an empty back-reference, a literal;
\* the text is 9aaaaaaaaa 0 2ba.
LZOutputWitness ==
    /\ Len(log) = 1
    /\ data = Periodic(9, 1) \o <<"b", "a">>
    /\ out = <<"9">> \o Periodic(9, 1) \o <<"0", "2", "b", "a">>

\* Twenty a's: a full literal, a full back-reference, an empty literal and a
\* back-reference of the last two; the text is 9aaaaaaaaa 91 0 21.
LZOutputWitnessEmptyLiteral ==
    /\ Len(log) = 1
    /\ data = Periodic(20, 1)
    /\ out = <<"9">> \o Periodic(9, 1) \o <<"9", "1", "0", "2", "1">>


(***************************************************************************)
(* The contract scripts (src/scripts/contract-monitor.ts,                  *)
(* src/scripts/contract-solver.ts) and the helpers they call.              *)
(*                                                                         *)
(* The game is the environment.  `data` holds, for each contract file, its *)
(* type and the tries it has left; a file with no try left is gone, as is  *)
(* a file whose contract was solved.  Whether a submitted solution is      *)
(* right is the game's verdict and is drawn freely.  `log` holds the       *)
(* submissions made so far and `frame` the script object.                  *)
(***************************************************************************)
MaxContracts == 2
MaxTriesLeft == 4
MaxSubmissions == 4

Contracts == 1..MaxContracts

ContractTypes == {"Array Jumping Game", "Sanitize Parentheses in Expression"}

\* findAllContracts: the contract files that exist.
findAllContracts(game) == {k \in DOMAIN game : game[k].tries > 0}

\* getContractInfo: numTries is getNumTriesRemaining, maxTries the literal 3.
getContractInfo(game, k) ==
    [type |-> game[k].type, numTries |-> game[k].tries, maxTries |-> 3]

\* return contract.numTries < contract.maxTries
isContractWorthAttempting(contract) == contract.numTries < contract.maxTries

\* attemptContract: ns.codingcontract.attempt throws for a file that is gone,
\* and the helper turns the error into success: false.
attemptContract(game, k, correct) == [success |-> game[k].tries > 0 /\ correct]

\* The game after a submission: a right answer or the last wrong one removes the file.
GameAfterAttempt(game, k, correct) ==
    IF game[k].tries = 0 THEN game
    ELSE IF correct THEN [game EXCEPT ![k].tries = 0]
    ELSE [game EXCEPT ![k].tries = @ - 1]

InitGame ==
    /\ \E types \in [Contracts -> ContractTypes] :
           \E tries \in [Contracts -> 0..MaxTriesLeft] :
               data = [k \in Contracts |-> [type |-> types[k], tries |-> tries[k]]]
    /\ contractType = ""
    /\ out = [success |-> FALSE]
    /\ raised = "none"
    /\ log = <<>>
    /\ chunks = <<>>

(***************************************************************************)
(* ContractMonitor.  frame.pc is "start" before the initial scan, "loop"   *)
(* at the top of the while (true) loop, "try" between the scan of an       *)
(* iteration and trySolveContracts, "solving" inside the for loop of       *)
(* trySolveContracts, whose remaining entries are frame.queue.             *)
(***************************************************************************)
InitMonitor ==
    /\ InitGame
    /\ frame = [pc |-> "start", monitoredContracts |-> <<>>, queue |-> {}]

\* scanForNewContracts: new files are recorded with attempts 0 and the info
\* read now; entries whose file is gone are deleted.
scanForNewContracts(monitoredContracts, game) ==
    [k \in findAllContracts(game) |->
        IF k \in DOMAIN monitoredContracts
        THEN monitoredContracts[k]
        ELSE [contract |-> getContractInfo(game, k), attempts |-> 0]]

\* The initial scan, or the scan of an iteration in which scanInterval has elapsed.
MonitorScan ==
    /\ frame.pc \in {"start", "loop"}
    /\ frame' = [frame EXCEPT
                    !.monitoredContracts = scanForNewContracts(frame.monitoredContracts, data),
                    !.pc = "try"]
    /\ UNCHANGED <<contractType, data, out, raised, log, chunks>>

\* The filter of trySolveContracts.
solvableContracts(monitoredContracts) ==
    {k \in DOMAIN monitoredContracts :
        /\ hasContractSolver(monitoredContracts[k].contract.type)
        /\ isContractWorthAttempting(monitoredContracts[k].contract)}

\* trySolveContracts up to its for loop; an iteration without a scan enters here.
MonitorTrySolve ==
    /\ frame.pc \in {"loop", "try"}
    /\ LET queue == solvableContracts(frame.monitoredContracts)
       IN  frame' = [frame EXCEPT !.queue = queue,
                                  !.pc = IF queue = {} THEN "loop" ELSE "solving"]
    /\ UNCHANGED <<contractType, data, out, raised, log, chunks>>

Without(f, k) == [j \in DOMAIN f \ {k} |-> f[j]]

\* solveContract for one entry of the for loop.  The solver either throws
\* (the catch branch counts an attempt, nothing is submitted) or returns a
\* solution that the game accepts or rejects.
MonitorSolveContract ==
    /\ frame.pc = "solving"
    /\ Len(log) < MaxSubmissions
    /\ \E k \in frame.queue : \E verdict \in {"throws", "right", "wrong"} :
          /\ frame.monitoredContracts[k].attempts < MaxSubmissions
          /\ LET result == attemptContract(data, k, verdict = "right")
                 rest == frame.queue \ {k}
                 monitored == frame.monitoredContracts
             IN  /\ contractType' = monitored[k].contract.type
                 /\ IF verdict = "throws"
                    THEN /\ raised' = "Error"
                         /\ UNCHANGED <<data, out, log>>
                    ELSE /\ raised' = "none"
                         /\ out' = result
                         /\ data' = GameAfterAttempt(data, k, verdict = "right")
                         /\ log' = Append(log, [key |-> k, success |-> result.success])
                 /\ frame' = [frame EXCEPT
                       !.monitoredContracts =
                           IF verdict # "throws" /\ result.success
                           THEN Without(monitored, k)
                           ELSE [monitored EXCEPT ![k].attempts = @ + 1],
                       !.queue = rest,
                       !.pc = IF rest = {} THEN "loop" ELSE "solving"]
    /\ UNCHANGED chunks

NextMonitor == MonitorScan \/ MonitorTrySolve \/ MonitorSolveContract

SpecMonitor == InitMonitor /\ [][NextMonitor]_vars

\* Number of submissions made for contract k.
Submitted(k) == Cardinality({i \in DOMAIN log : log[i].key = k})

\* C27: the monitor never submits more attempts for a contract than the tries
\* the contract had left when it was discovered, and a contract that was
\* solved is no longer monitored and is never submitted again.
MonitorAttemptsBounded ==
    /\ \A k \in DOMAIN frame.monitoredContracts :
           Submitted(k) <= frame.monitoredContracts[k].contract.numTries
    /\ \A i \in DOMAIN log :
           log[i].success =>
               /\ log[i].key \notin DOMAIN frame.monitoredContracts
               /\ \A j \in DOMAIN log : j > i => log[j].key # log[i].key

\* The second half of C27 alone: solved contracts leave monitoring for good.
MonitorSolvedRemoved ==
    \A i \in DOMAIN log :
        log[i].success =>
            /\ log[i].key \notin DOMAIN frame.monitoredContracts
            /\ \A j \in DOMAIN log : j > i => log[j].key # log[i].key

MonitorSolvedWitness ==
    \E i \in DOMAIN log : log[i].success /\ i < Len(log)

(***************************************************************************)
(* ContractSolver (the one-shot script).  frame.pending holds the files    *)
(* run() found and has not processed yet; log holds, per processed file,   *)
(* the info read and what processContract did.                             *)
(***************************************************************************)
InitSolverScript ==
    /\ InitGame
    /\ frame = [pc |-> "start", pending |-> {}]

\* run(): const contracts = findAllContracts(this.ns).
SolverScriptRun ==
    /\ frame.pc = "start"
    /\ frame' = [pc |-> "process", pending |-> findAllContracts(data)]
    /\ UNCHANGED <<contractType, data, out, raised, log, chunks>>

\* What processContract does with the info it read.
ProcessOutcome(contractInfo) ==
    IF ~hasContractSolver(contractInfo.type) THEN "No solver available"
    ELSE IF ~isContractWorthAttempting(contractInfo) THEN "no attempts remaining"
    ELSE "attempted"

\* processContract for one file.
SolverScriptProcessContract ==
    /\ frame.pc = "process"
    /\ \E k \in frame.pending : \E verdict \in {"throws", "right", "wrong"} :
          LET contractInfo == getContractInfo(data, k)
              outcome == ProcessOutcome(contractInfo)
              submits == outcome = "attempted" /\ verdict # "throws"
              result == attemptContract(data, k, verdict = "right")
          IN  /\ contractType' = contractInfo.type
              /\ raised' = IF outcome = "attempted" /\ verdict = "throws"
                           THEN "Error" ELSE "none"
              /\ out' = IF submits THEN result ELSE out
              /\ data' = IF submits THEN GameAfterAttempt(data, k, verdict = "right")
                         ELSE data
              /\ log' = Append(log, [key |-> k, contract |-> contractInfo,
                                     outcome |-> outcome])
              /\ frame' = [frame EXCEPT !.pending = frame.pending \ {k}]
    /\ UNCHANGED chunks

NextSolverScript == SolverScriptRun \/ SolverScriptProcessContract

SpecSolverScript == InitSolverScript /\ [][NextSolverScript]_vars

\* C28: a contract read by getContractInfo is worth attempting exactly when
\* it has a try left, so processContract attempts every contract that has a
\* registered solver and a try left, and reports 'no attempts remaining'
\* only for a contract with no try left.
WorthAttemptingIffTriesRemain ==
    \A i \in DOMAIN log :
        LET contractInfo == log[i].contract
        IN  /\ isContractWorthAttempting(contractInfo) <=> contractInfo.numTries >= 1
            /\ (hasContractSolver(contractInfo.type) /\ contractInfo.numTries >= 1)
                   => log[i].outcome = "attempted"
            /\ log[i].outcome = "no attempts remaining" => contractInfo.numTries = 0


(***************************************************************************)
(* Algorithmic Stock Trader I and III, beside IV with k = 1 and k = 2.     *)
(***************************************************************************)
\* The for loop of solveAlgorithmicStockTraderI from index i.
RECURSIVE StockTraderILoop(_, _, _, _)
StockTraderILoop(prices, i, maxProfit, minPrice) ==
    IF i < Len(prices)
    THEN LET currentPrice == At(prices, i)
             profit == currentPrice - minPrice
         IN  StockTraderILoop(prices, i + 1, Max(maxProfit, profit),
                              Min(minPrice, currentPrice))
    ELSE maxProfit

solveAlgorithmicStockTraderI(prices) ==
    IF Len(prices) < 2 THEN 0 ELSE StockTraderILoop(prices, 1, 0, At(prices, 0))

SecondBuyFromNothing(buy2, sell1, price) == Max(buy2, 0 - price)

\* buy2 = Math.max(buy2, sell1 - price)
SecondBuy(buy2, sell1, price) == Max(buy2, sell1 - price)

\* The for loop of solveAlgorithmicStockTraderIII from index i.
RECURSIVE StockTraderIIILoop(_, _, _, _, _, _)
StockTraderIIILoop(prices, i, buy1, sell1, buy2, sell2) ==
    IF i < Len(prices)
    THEN LET price == At(prices, i)
             nextBuy1 == Max(buy1, 0 - price)
             nextSell1 == Max(sell1, nextBuy1 + price)
             nextBuy2 == SecondBuy(buy2, nextSell1, price)
             nextSell2 == Max(sell2, nextBuy2 + price)
         IN  StockTraderIIILoop(prices, i + 1, nextBuy1, nextSell1, nextBuy2, nextSell2)
    ELSE Max(0, sell2)

solveAlgorithmicStockTraderIII(prices) ==
    IF Len(prices) < 2 THEN 0
    ELSE StockTraderIIILoop(prices, 1, 0 - At(prices, 0), 0, 0 - At(prices, 0), 0)

InitTraders ==
    /\ \E n \in 0..MaxPrices : \E prices \in [1..n -> 0..MaxPrice] : data = prices
    /\ contractType = ""
    /\ out = 0
    /\ raised = "none"
    /\ log = <<>>
    /\ chunks = <<>>
    /\ frame = NoFrame

CallAlgorithmicStockTraderI ==
    /\ log = <<>>
    /\ contractType' = "Algorithmic Stock Trader I"
    /\ out' = solveAlgorithmicStockTraderI(data)
    /\ raised' = "none"
    /\ log' = Append(log, out')
    /\ UNCHANGED <<data, chunks, frame>>

CallAlgorithmicStockTraderIII ==
    /\ log = <<>>
    /\ contractType' = "Algorithmic Stock Trader III"
    /\ out' = solveAlgorithmicStockTraderIII(data)
    /\ raised' = "none"
    /\ log' = Append(log, out')
    /\ UNCHANGED <<data, chunks, frame>>

NextTraders == CallAlgorithmicStockTraderI \/ CallAlgorithmicStockTraderIII

SpecTraders == InitTraders /\ [][NextTraders]_vars

\* C29: on every price list p, Algorithmic Stock Trader IV called with [2, p]
\* returns what Algorithmic Stock Trader III returns on p, and called with
\* [1, p] what Algorithmic Stock Trader I returns on p.
TradersAgreeWithIV ==
    /\ (Len(log) = 1 /\ contractType = "Algorithmic Stock Trader III")
           => out = solveAlgorithmicStockTraderIV(2, data)
    /\ (Len(log) = 1 /\ contractType = "Algorithmic Stock Trader I")
           => out = solveAlgorithmicStockTraderIV(1, data)

\* Prices 0, 1, 0, 2, 0, 3: three rises, of which two transactions take 2 + 3;
\* with six prices IV runs its limited pass for k = 2 (2 < 6 \div 2).
TradersWitness ==
    /\ Len(log) = 1
    /\ contractType = "Algorithmic Stock Trader III"
    /\ data = <<0, 1, 0, 2, 0, 3>>
    /\ ~IsUnlimited(2, data)
    /\ out = 5


\* C30: called with the decimal string of a non-negative integer n the Hamming
\* solver returns the same bit string as when called with the integer n.
HammingDecimalStringAsInteger ==
    (Len(log) = 1 /\ data.t = "string" /\ \E n \in 0..MaxHammingString : data.v = toString(n))
        => out = solveHammingCodes(JSNumber(DecimalValue(data.v)))

=============================================================================
